---- MODULE Spec2Model ----
(***************************************************************************)
(* Onboarding wizard of dazlanceteam/DalanceTeam: the session identifier   *)
(* kept by FormLayout, the useSupabaseForm hook (fetchLatestEntry and      *)
(* saveEntry) against the remote row store, the digital-presence step      *)
(* (DigitalPresenceForm, collection "requirements") and the professional / *)
(* financial step (ProfessionalFinancialForm, collection "Finish").        *)
(*                                                                         *)
(* JavaScript values are wrapped so that values of different types are     *)
(* never compared directly: Val(x) is a defined value, Undef is the value  *)
(* undefined, Null is null (a store column without a value) and Absent is  *)
(* a key that an object does not have.                                     *)
(***************************************************************************)
EXTENDS Integers, Sequences, FiniteSets, TLC

Val(x) == [k |-> "val", v |-> x]
Undef == [k |-> "undef"]
Null == [k |-> "null"]
Absent == [k |-> "absent"]

IsVal(w) == w.k = "val"

NonEmptyString(w) == IsVal(w) /\ Len(w.v) >= 1

\* JavaScript truthiness of a string, of a boolean and of a text (a string kept
\* as a sequence of atoms, used for the Skills column), and  w || d.
TruthyStr(w) == IsVal(w) /\ w.v # ""
TruthyBool(w) == IsVal(w) /\ w.v = TRUE
TruthyText(w) == IsVal(w) /\ w.v # <<>>
OrStr(w, d) == IF TruthyStr(w) THEN w.v ELSE d

\* JSON.stringify drops the keys whose value is undefined; the hook passes the
\* payload in an array, so the request names every key of the payload as a column
\* and a dropped key is written as null.
ToColumn(w) == IF w.k = "undef" THEN Null ELSE w

----------------------------------------------------------------------------
\* Browsing contexts, session tokens, collections, routes.

Tabs == {"t1", "t2"}
TokenList == <<"s1", "s2">>
Tokens == {TokenList[i] : i \in 1..Len(TokenList)}
Tables == {"requirements", "Finish"}
Routes == {"/basicinfo", "/requirements", "/finish"}

\* Bound on the number of user operations (page loads, history navigations, form
\* fills, Submit and Back clicks) in one behaviour.
MaxOps == 4

----------------------------------------------------------------------------
\* Basic-info step (IntakeForm): schema.

IntakeFields == {"fullName", "displayName", "cityCountry", "timeZone", "jobTitle",
                 "oneLiner", "yearsExperience", "email", "phoneNumber"}

\* intakeSchema: the fields with an issue, for the fields the schema requires (the
\* optional ones and the headshot, whose refinement accepts anything, never have one).
intakeSchema(data) ==
    {f \in IntakeFields :
        CASE f \in {"fullName", "displayName"} -> ~(IsVal(data[f]) /\ Len(data[f].v) >= 2)
          [] f = "oneLiner" -> ~(IsVal(data[f]) /\ Len(data[f].v) >= 1 /\ Len(data[f].v) <= 60)
          [] f = "yearsExperience" -> ~(IsVal(data[f]) /\ data[f].v >= 0)
          [] f = "email" -> ~(IsVal(data[f]) /\ data[f].v = "u@e.co")
          [] f = "phoneNumber" -> ~(IsVal(data[f]) /\ data[f].v = "+15550000000")
          [] OTHER -> ~NonEmptyString(data[f])}

----------------------------------------------------------------------------
\* Digital-presence step: schema.

tools == <<"whatsapp", "discord", "github", "jira", "git", "node", "antigravity">>
ToolSet == {tools[i] : i \in 1..Len(tools)}
StringTools == {"whatsapp", "discord", "github", "jira", "antigravity"}
BoolTools == {"git", "node"}

\* The strings a user is modelled to type, with the ones new URL() accepts and the
\* ones zod's e-mail pattern accepts.
ValidUrls == {"https://github.com/u"}
ValidEmails == {"u@e.co"}
MinPhoneLen == 5
MinUserLen == 2

\* valueSchema.safeParse(v).success for the tool's value schema.
ValueSchemaOk(tool, w) ==
    /\ IsVal(w)
    /\ CASE tool = "whatsapp" -> Len(w.v) >= MinPhoneLen
         [] tool = "discord" -> Len(w.v) >= MinUserLen
         [] tool = "github" -> w.v \in ValidUrls
         [] tool = "jira" -> w.v \in ValidEmails
         [] tool = "antigravity" -> w.v \in ValidEmails

\* A validator that takes an empty value for a missing one and asks for nothing
\* more of an enabled tool.
ToolIssuesLenient(tool, d) ==
    IF tool \in StringTools
    THEN (IF d.value # "" /\ ~ValueSchemaOk(tool, Val(d.value)) THEN {<<tool, "value">>} ELSE {})
    ELSE {}

\* The issues zod reports for one tool: the object schema checks value against
\* valueSchema.optional() (only undefined is exempt), then superRefine adds
\* "Required when enabled"; git and node only have the superRefine.
ToolIssues(tool, d) ==
    IF tool \in StringTools
    THEN (IF ~ValueSchemaOk(tool, Val(d.value)) THEN {<<tool, "value">>} ELSE {})
         \cup (IF d.enabled /\ ~ValueSchemaOk(tool, Val(d.value))
               THEN {<<tool, "value">>} ELSE {})
    ELSE (IF d.enabled /\ ~d.confirmed THEN {<<tool, "confirmed">>} ELSE {})

\* checklistSchema: the field errors of a whole form (empty when it is valid).
checklistSchema(data) == UNION {ToolIssues(t, data[t]) : t \in ToolSet}

\* The form's default values come from the aggregator when it has the tool
\* (formData.whatsapp || { enabled: false, value: '' }).
ToolDefault(tool) ==
    IF tool \in StringTools THEN [enabled |-> FALSE, value |-> ""]
    ELSE [enabled |-> FALSE, confirmed |-> FALSE]

dpDefaultValues(formData) ==
    [t \in ToolSet |-> IF IsVal(formData[t]) THEN formData[t].v ELSE ToolDefault(t)]

\* Column of the "requirements" collection that holds a tool.
ColOf(tool) ==
    CASE tool = "node" -> "nodejs"
      [] tool = "antigravity" -> "Antigravity"
      [] OTHER -> tool

DPCols == {ColOf(t) : t \in ToolSet}

\* A payload that stores every tool's value whether the tool is enabled or not.
dpPayloadRaw(data) ==
    [c \in DPCols |->
        LET t == CHOOSE x \in ToolSet : ColOf(x) = c
        IN IF t \in StringTools THEN Val(data[t].value) ELSE Val(data[t].confirmed)]

\* "Map to DB": the payload handleFormSubmit and handleBack build from the form data.
dpPayload(data) ==
    [c \in DPCols |->
        LET t == CHOOSE x \in ToolSet : ColOf(x) = c
        IN IF t \in StringTools
           THEN Val(IF data[t].enabled THEN data[t].value ELSE "")
           ELSE Val(IF data[t].enabled THEN data[t].confirmed ELSE FALSE)]

\* A mapping that enables every tool whose column holds a value, '' and false
\* included.
dpMappedDataOn(dbData) ==
    [t \in ToolSet |->
        IF t \in StringTools
        THEN [enabled |-> IsVal(dbData[ColOf(t)]), value |-> OrStr(dbData[ColOf(t)], "")]
        ELSE [enabled |-> IsVal(dbData[ColOf(t)]), confirmed |-> TruthyBool(dbData[ColOf(t)])]]

\* A mapping that restores the values and leaves every tool disabled.
dpMappedDataOff(dbData) ==
    [t \in ToolSet |->
        IF t \in StringTools
        THEN [enabled |-> FALSE, value |-> OrStr(dbData[ColOf(t)], "")]
        ELSE [enabled |-> FALSE, confirmed |-> TruthyBool(dbData[ColOf(t)])]]

\* mappedData of the hydration effect: the store row mapped to the form shape.
dpMappedData(dbData) ==
    [t \in ToolSet |->
        IF t \in StringTools
        THEN [enabled |-> TruthyStr(dbData[ColOf(t)]), value |-> OrStr(dbData[ColOf(t)], "")]
        ELSE [enabled |-> TruthyBool(dbData[ColOf(t)]), confirmed |-> TruthyBool(dbData[ColOf(t)])]]

\* tools.filter(t => !data[t].enabled)
disabledTools(data) == {t \in ToolSet : ~data[t].enabled}

----------------------------------------------------------------------------
\* Professional / financial step: schema.

BaseFields == {"workCapacity", "timeZone", "startDate", "primarySkills",
               "experienceLevel", "portfolioUrl", "taxDeclaration"}
BankFields == {"bankName", "accountNumber", "branchCode", "accountHolderName"}
WiseFields == {"wiseEmail"}
CryptoFields == {"network", "walletAddress"}
PFFields == BaseFields \cup {"paymentMethod"} \cup BankFields \cup WiseFields \cup CryptoFields

WorkCapacities == {"full-time", "part-time", "project-based"}
ExperienceLevels == {"junior", "mid-level", "senior"}
Networks == {"TRC20", "ERC20", "BEP20"}
PaymentMethods == {"bank", "wise", "crypto"}

\* A text is a string kept as a sequence of atoms, so that join and split are
\* computed; a skill of SKILL_OPTIONS is one atom, the separator ', ' is two.
Separator == <<",", " ">>

RECURSIVE join(_, _)
join(list, sep) ==
    IF list = <<>> THEN <<>>
    ELSE IF Len(list) = 1 THEN list[1]
    ELSE list[1] \o sep \o join(Tail(list), sep)

StartsWith(text, i, sep) ==
    /\ i + Len(sep) - 1 <= Len(text)
    /\ \A j \in 1..Len(sep) : text[i + j - 1] = sep[j]

RECURSIVE SplitFrom(_, _, _, _)
SplitFrom(text, sep, i, cur) ==
    IF i > Len(text) THEN <<cur>>
    ELSE IF StartsWith(text, i, sep)
         THEN <<cur>> \o SplitFrom(text, sep, i + Len(sep), <<>>)
         ELSE SplitFrom(text, sep, i + 1, Append(cur, text[i]))

split(text, sep) == SplitFrom(text, sep, 1, <<>>)

\* obj.key of an object that may lack the key.
Get(obj, key) == IF key \in DOMAIN obj THEN obj[key] ELSE Undef

\* baseSchema: the field errors of the shared fields.
baseSchema(data) ==
    {f \in BaseFields :
        CASE f = "workCapacity" -> ~(IsVal(data[f]) /\ data[f].v \in WorkCapacities)
          [] f = "timeZone" -> ~NonEmptyString(data[f])
          [] f = "startDate" -> ~NonEmptyString(data[f])
          [] f = "primarySkills" -> ~(IsVal(data[f]) /\ Len(data[f].v) >= 1)
          [] f = "experienceLevel" -> ~(IsVal(data[f]) /\ data[f].v \in ExperienceLevels)
          [] f = "portfolioUrl" -> ~(IsVal(data[f]) /\ data[f].v \in ValidUrls)
          [] f = "taxDeclaration" -> ~(IsVal(data[f]) /\ data[f].v = TRUE)}

\* The fields of the variant the tag selects.
VariantFields(pm) ==
    CASE pm = "bank" -> BankFields
      [] pm = "wise" -> WiseFields
      [] pm = "crypto" -> CryptoFields

\* bankSchema, wiseSchema, cryptoSchema: the discriminated union validates the
\* selected variant's fields only.
variantSchema(data) ==
    IF ~(IsVal(data["paymentMethod"]) /\ data["paymentMethod"].v \in PaymentMethods)
    THEN {"paymentMethod"}
    ELSE {f \in VariantFields(data["paymentMethod"].v) :
            CASE f = "wiseEmail" -> ~(IsVal(data[f]) /\ data[f].v \in ValidEmails)
              [] f = "network" -> ~(IsVal(data[f]) /\ data[f].v \in Networks)
              [] OTHER -> ~NonEmptyString(data[f])}

\* profileSchema: the field errors of a whole form (empty when it is valid).
profileSchema(data) == baseSchema(data) \cup variantSchema(data)

\* The data a valid form parses to: the object schemas strip the keys they do not
\* declare, so only the shared fields and the selected variant's fields remain.
profileParsed(data) ==
    [f \in BaseFields \cup {"paymentMethod"} \cup VariantFields(data["paymentMethod"].v)
        |-> data[f]]

\* useForm defaultValues of the step.
pfDefaultValues(formData) ==
    [f \in PFFields |->
        CASE f = "primarySkills" -> IF IsVal(formData[f]) THEN formData[f] ELSE Val(<<>>)
          [] f = "taxDeclaration" -> IF TruthyBool(formData[f]) THEN formData[f] ELSE Val(FALSE)
          [] f = "paymentMethod" -> IF TruthyStr(formData[f]) THEN formData[f] ELSE Val("bank")
          [] OTHER -> IF IsVal(formData[f]) THEN formData[f] ELSE Undef]

PFCols == {"Work_capacity", "Time_zone", "Start_date", "Skills", "Experience_level",
           "Portfolio", "Payment_method", "Bank", "Account_no", "Branch_code", "Holder_name"}

\* A Skills column joined with ',' alone.
SkillsColumnComma(w) == Val(join(w.v, <<",">>))

\* data.primarySkills.join(', ')
SkillsColumn(w) == Val(join(w.v, Separator))

\* A payload that copies the bank fields whatever the payment method is.
pfPayloadFlat(data) ==
    [c \in PFCols |->
        CASE c = "Work_capacity" -> Get(data, "workCapacity")
          [] c = "Time_zone" -> Get(data, "timeZone")
          [] c = "Start_date" -> Get(data, "startDate")
          [] c = "Skills" -> SkillsColumn(Get(data, "primarySkills"))
          [] c = "Experience_level" -> Get(data, "experienceLevel")
          [] c = "Portfolio" -> Get(data, "portfolioUrl")
          [] c = "Payment_method" -> Get(data, "paymentMethod")
          [] c = "Bank" -> Get(data, "bankName")
          [] c = "Account_no" -> Get(data, "accountNumber")
          [] c = "Branch_code" -> Get(data, "branchCode")
          [] c = "Holder_name" -> Get(data, "accountHolderName")]

\* "Map frontend payload to database schema" (handleFormSubmit and handleBack).
pfPayload(data) ==
    LET pm == Get(data, "paymentMethod")
        is(m) == IsVal(pm) /\ pm.v = m
    IN [c \in PFCols |->
        CASE c = "Work_capacity" -> Get(data, "workCapacity")
          [] c = "Time_zone" -> Get(data, "timeZone")
          [] c = "Start_date" -> Get(data, "startDate")
          [] c = "Skills" -> SkillsColumn(Get(data, "primarySkills"))
          [] c = "Experience_level" -> Get(data, "experienceLevel")
          [] c = "Portfolio" -> Get(data, "portfolioUrl")
          [] c = "Payment_method" -> pm
          [] c = "Bank" -> IF is("bank") THEN Get(data, "bankName")
                           ELSE IF is("wise") THEN Val("Wise") ELSE Val("Crypto")
          [] c = "Account_no" -> IF is("bank") THEN Get(data, "accountNumber")
                                 ELSE IF is("wise") THEN Get(data, "wiseEmail")
                                 ELSE Get(data, "walletAddress")
          [] c = "Branch_code" -> IF is("bank") THEN Get(data, "branchCode")
                                  ELSE IF is("crypto") THEN Get(data, "network") ELSE Val("")
          [] c = "Holder_name" -> IF is("bank") THEN Get(data, "accountHolderName")
                                  ELSE Val("")]

\* A mapping that takes the declaration of a stored row as acknowledged.
pfMappedDataDeclared(dbData) ==
    LET pm == dbData["Payment_method"]
        is(m) == IsVal(pm) /\ pm.v = m
        base == [f \in BaseFields \cup {"paymentMethod"} |->
            CASE f = "workCapacity" -> Val(OrStr(dbData["Work_capacity"], "full-time"))
              [] f = "timeZone" -> Val(OrStr(dbData["Time_zone"], ""))
              [] f = "startDate" -> Val(OrStr(dbData["Start_date"], ""))
              [] f = "primarySkills" ->
                    IF TruthyText(dbData["Skills"])
                    THEN Val(split(dbData["Skills"].v, Separator)) ELSE Val(<<>>)
              [] f = "experienceLevel" -> Val(OrStr(dbData["Experience_level"], "mid-level"))
              [] f = "portfolioUrl" -> Val(OrStr(dbData["Portfolio"], ""))
              [] f = "taxDeclaration" -> Val(TRUE)
              [] f = "paymentMethod" -> Val(OrStr(pm, "bank"))]
        variant ==
            IF is("bank") THEN
                [f \in BankFields |->
                    CASE f = "bankName" -> Val(OrStr(dbData["Bank"], ""))
                      [] f = "accountNumber" -> Val(OrStr(dbData["Account_no"], ""))
                      [] f = "branchCode" -> Val(OrStr(dbData["Branch_code"], ""))
                      [] f = "accountHolderName" -> Val(OrStr(dbData["Holder_name"], ""))]
            ELSE IF is("wise") THEN
                [f \in WiseFields |-> Val(OrStr(dbData["Account_no"], ""))]
            ELSE IF is("crypto") THEN
                [f \in CryptoFields |->
                    CASE f = "network" -> Val(OrStr(dbData["Branch_code"], ""))
                      [] f = "walletAddress" -> Val(OrStr(dbData["Account_no"], ""))]
            ELSE <<>>
    IN base @@ variant

\* mappedData of the hydration effect: the shared fields, then the fields of the
\* variant Payment_method names (no variant field when it names none).
pfMappedData(dbData) ==
    LET pm == dbData["Payment_method"]
        is(m) == IsVal(pm) /\ pm.v = m
        base == [f \in BaseFields \cup {"paymentMethod"} |->
            CASE f = "workCapacity" -> Val(OrStr(dbData["Work_capacity"], "full-time"))
              [] f = "timeZone" -> Val(OrStr(dbData["Time_zone"], ""))
              [] f = "startDate" -> Val(OrStr(dbData["Start_date"], ""))
              [] f = "primarySkills" ->
                    IF TruthyText(dbData["Skills"])
                    THEN Val(split(dbData["Skills"].v, Separator)) ELSE Val(<<>>)
              [] f = "experienceLevel" -> Val(OrStr(dbData["Experience_level"], "mid-level"))
              [] f = "portfolioUrl" -> Val(OrStr(dbData["Portfolio"], ""))
              [] f = "taxDeclaration" -> Val(FALSE)
              [] f = "paymentMethod" -> Val(OrStr(pm, "bank"))]
        variant ==
            IF is("bank") THEN
                [f \in BankFields |->
                    CASE f = "bankName" -> Val(OrStr(dbData["Bank"], ""))
                      [] f = "accountNumber" -> Val(OrStr(dbData["Account_no"], ""))
                      [] f = "branchCode" -> Val(OrStr(dbData["Branch_code"], ""))
                      [] f = "accountHolderName" -> Val(OrStr(dbData["Holder_name"], ""))]
            ELSE IF is("wise") THEN
                [f \in WiseFields |-> Val(OrStr(dbData["Account_no"], ""))]
            ELSE IF is("crypto") THEN
                [f \in CryptoFields |->
                    CASE f = "network" -> Val(OrStr(dbData["Branch_code"], ""))
                      [] f = "walletAddress" -> Val(OrStr(dbData["Account_no"], ""))]
            ELSE <<>>
    IN base @@ variant

\* reset(mappedData): the form's values become mappedData; a field it lacks reads
\* undefined.
resetValues(fields, mappedData) == [f \in fields |-> Get(mappedData, f)]

----------------------------------------------------------------------------
\* Global form aggregator (FormLayout).

AggKeys == ToolSet \cup PFFields

EmptyFormData == [k \in AggKeys |-> Absent]

\* An aggregator that is replaced by the new data as a whole.
updateFormDataReplace(prev, newData) ==
    [k \in AggKeys |-> IF k \in DOMAIN newData THEN newData[k] ELSE Absent]

\* setFormData((prev) => ({ ...prev, ...newData }))
updateFormData(prev, newData) ==
    [k \in AggKeys |-> IF k \in DOMAIN newData THEN newData[k] ELSE prev[k]]

\* The digital-presence form data as the object handed to updateFormData.
dpObject(data) == [t \in ToolSet |-> Val(data[t])]

----------------------------------------------------------------------------
\* Remote row store: a collection is the sequence of its rows in insertion order;
\* created_at is attached by the store when a row is inserted.

SessionRows(rows, sid) == {i \in 1..Len(rows) : rows[i].row["session_id"] = Val(sid)}

\* A payload built as { session_id: sessionId, ...formData }: a session_id key of
\* the form data wins.
savePayloadFormWins(formData, sid) ==
    [c \in DOMAIN formData \cup {"session_id"} |->
        IF c \in DOMAIN formData THEN formData[c] ELSE Val(sid)]

\* const payload = { ...formData, session_id: sessionId }
savePayload(formData, sid) ==
    [c \in DOMAIN formData \cup {"session_id"} |->
        IF c = "session_id" THEN Val(sid) ELSE formData[c]]

\* A store that appends every payload as a new row (a plain insert).
upsertAppend(rows, payload) ==
    Append(rows, [row |-> [c \in DOMAIN payload |-> ToColumn(payload[c])],
                  created_at |-> Len(rows) + 1])

\* A store that ignores a payload whose session already has a row.
upsertIgnore(rows, payload) ==
    IF \E i \in 1..Len(rows) : rows[i].row["session_id"] = payload["session_id"]
    THEN rows
    ELSE Append(rows, [row |-> [c \in DOMAIN payload |-> ToColumn(payload[c])],
                       created_at |-> Len(rows) + 1])

\* .upsert([payload], { onConflict: 'session_id' }): the row with the payload's
\* session_id is updated in place, or the payload is inserted as a new row.
upsert(rows, payload) ==
    LET new == [c \in DOMAIN payload |-> ToColumn(payload[c])]
        hit == {i \in 1..Len(rows) : rows[i].row["session_id"] = new["session_id"]}
    IN IF hit # {}
       THEN [i \in 1..Len(rows) |->
                IF i \in hit
                THEN [rows[i] EXCEPT !.row =
                        [c \in DOMAIN rows[i].row \cup DOMAIN new |->
                            IF c \in DOMAIN new THEN new[c] ELSE rows[i].row[c]]]
                ELSE rows[i]]
       ELSE Append(rows, [row |-> new, created_at |-> Len(rows) + 1])

\* .select('*').eq('session_id', sessionId).order('created_at', desc).limit(1)
\* .maybeSingle(): the newest row of the session, or null.
fetchLatest(rows, sid) ==
    LET hit == SessionRows(rows, sid)
    IN IF hit = {} THEN Null
       ELSE Val(rows[CHOOSE i \in hit :
                    \A j \in hit : rows[j].created_at <= rows[i].created_at].row)

----------------------------------------------------------------------------
\* State.

VARIABLES
    storage,      \* per browsing context: the sessionStorage entry 'dazlance_form_session_id'
    storageOk,    \* per browsing context: whether sessionStorage can be read
    sessionId,    \* FormLayout state sessionId ('' until the effect has set it)
    route,        \* the route the tab shows ("closed": no page loaded)
    formData,     \* FormLayout state formData, the global form aggregator
    dpForm,       \* react-hook-form values of DigitalPresenceForm
    pfForm,       \* react-hook-form values of ProfessionalFinancialForm
    errors,       \* formState.errors of the mounted step
    isSubmitted,  \* formState.isSubmitted of the mounted step
    isLoading,    \* useSupabaseForm state isLoading of the mounted step
    error,        \* useSupabaseForm state error of the mounted step
    toasts,       \* notices shown to the user by the last handler
    net,          \* per tab: the store calls that have not returned to their caller
    store,        \* per collection: its rows
    ops,          \* number of user operations (and of forwarder requests) so far
    fwd,          \* the completion forwarder: the request it serves and its POSTs
    hook          \* the database webhook: the events emitted, and those delivered

vars == <<storage, storageOk, sessionId, route, formData, dpForm, pfForm, errors,
          isSubmitted, isLoading, error, toasts, net, store, ops, fwd, hook>>

\* The state of the wizard's tabs and of the store.
wizardVars == <<storage, storageOk, sessionId, route, formData, dpForm, pfForm, errors,
                isSubmitted, isLoading, error, toasts, net, store>>

NoEntry == "null"

DPUnmounted == dpDefaultValues(EmptyFormData)
PFUnmounted == pfDefaultValues(EmptyFormData)

TableOf(r) == IF r = "/requirements" THEN "requirements" ELSE "Finish"

Remove(seq, i) == [j \in 1..(Len(seq) - 1) |-> IF j < i THEN seq[j] ELSE seq[j + 1]]

\* A store call that has not returned to its caller. stage: "sent", then the
\* store's outcome ("ok", "error", "throw"); data: the row a fetch returned.
FetchCall(table, sid) ==
    [kind |-> "fetch", table |-> table, sid |-> sid, payload |-> Null,
     origin |-> "hydrate", stage |-> "sent", data |-> Null]

SaveCall(table, sid, payload, origin) ==
    [kind |-> "save", table |-> table, sid |-> sid, payload |-> Val(savePayload(payload, sid)),
     origin |-> origin, stage |-> "sent", data |-> Null]

----------------------------------------------------------------------------
\* The forms a user is modelled to fill in.

Phone == "+15550000000"
UserName == "ab"
Url == "https://github.com/u"
Email == "u@e.co"

GoodValue(tool) ==
    CASE tool = "whatsapp" -> Phone
      [] tool = "discord" -> UserName
      [] tool = "github" -> Url
      [] OTHER -> Email

\* A form with the tools of `on` enabled, the string tools of `typed` holding a
\* well-formed value (the others ''), and the confirmations of `ticked` ticked.
DPForm(on, typed, ticked) ==
    [t \in ToolSet |->
        IF t \in StringTools
        THEN [enabled |-> t \in on, value |-> IF t \in typed THEN GoodValue(t) ELSE ""]
        ELSE [enabled |-> t \in on, confirmed |-> t \in ticked]]

DPSamples ==
    { DPForm({}, {}, {}),
      DPForm({}, StringTools, {}),
      DPForm({"whatsapp", "git"}, StringTools, {"git"}),
      DPForm({"git", "jira"}, StringTools \ {"jira"}, {}) }

PFForm(pm, tax, skills, filled) ==
    [f \in PFFields |->
        CASE f = "paymentMethod" -> Val(pm)
          [] f = "taxDeclaration" -> Val(tax)
          [] f = "primarySkills" -> Val(skills)
          [] f \notin filled -> Undef
          [] f = "workCapacity" -> Val("part-time")
          [] f = "timeZone" -> Val("UTC+0")
          [] f = "startDate" -> Val("2026-01-01")
          [] f = "experienceLevel" -> Val("senior")
          [] f = "portfolioUrl" -> Val(Url)
          [] f = "bankName" -> Val("HSBC")
          [] f = "accountNumber" -> Val("12345")
          [] f = "branchCode" -> Val("007")
          [] f = "accountHolderName" -> Val("A. Holder")
          [] f = "wiseEmail" -> Val(Email)
          [] f = "network" -> Val("TRC20")
          [] f = "walletAddress" -> Val("TXYZ")]

React == <<"React.js">>
Node == <<"Node.js">>

PFSamples ==
    { PFForm("bank", TRUE, <<React, Node>>, BaseFields \cup BankFields),
      PFForm("crypto", TRUE, <<React>>, PFFields),
      PFForm("crypto", FALSE, <<>>, {"walletAddress", "bankName"}) }

\* The basic-info form as it is submitted: left blank (the text inputs read '',
\* yearsExperience its default 0) or filled in.
IntakeForm(filled) ==
    [f \in IntakeFields |->
        CASE f = "yearsExperience" -> Val(IF filled THEN 3 ELSE 0)
          [] ~filled -> Val("")
          [] f = "email" -> Val(Email)
          [] f = "phoneNumber" -> Val(Phone)
          [] f = "timeZone" -> Val("UTC+0")
          [] OTHER -> Val("Jo Doe")]

IntakeSamples == {IntakeForm(FALSE), IntakeForm(TRUE)}

----------------------------------------------------------------------------
\* Completion forwarder (edge function notify-completion).

\* The requests the function is modelled to receive: a body that is not JSON, or a
\* database-webhook payload with its type, its table and its record (undefined
\* when the payload has none); a record may lack any of the three fields read.
EventTypes == {"INSERT", "UPDATE", "DELETE"}
EventTables == {"Finish", "requirements", "Dazlance_basic_Info"}
RecordFields == {"session_id", "Payment_method", "Work_capacity"}

EventRecords ==
    { [f \in RecordFields |->
          CASE f = "session_id" -> sid
            [] f = "Payment_method" -> pm
            [] f = "Work_capacity" -> wc] :
      sid \in {Val(tok) : tok \in Tokens} \cup {Undef},
      pm \in {Val("bank"), Val("crypto"), Undef},
      wc \in {Val("full-time"), Undef} }

NotJson == [parses |-> FALSE, type |-> "", table |-> "", record |-> Undef]

Requests ==
    {NotJson} \cup
    { [parses |-> TRUE, type |-> ty, table |-> tb, record |-> rec] :
      ty \in EventTypes, tb \in EventTables,
      rec \in {Val(r) : r \in EventRecords} \cup {Undef} }

\* The statuses the external webhook is modelled to answer with; response.ok.
WebhookStatuses == {200, 204, 404, 500}
ResponseOk(status) == status >= 200 /\ status <= 299

\* JSON.stringify drops a key whose value is undefined.
JsonField(w) == IF w = Undef THEN Absent ELSE w

\* The body of the POST built from the record.
notification(record) ==
    [event |-> Val("onboarding_completed"),
     session_id |-> JsonField(record["session_id"]),
     payment_method |-> JsonField(record["Payment_method"]),
     work_capacity |-> JsonField(record["Work_capacity"]),
     timestamp |-> Val("now")]

\* A forwarder that notifies for any event on Finish, an UPDATE included.
IsCompletionAnyType(req) == req.table = "Finish"

\* A forwarder that notifies for an INSERT on any table.
IsCompletionAnyTable(req) == req.type = "INSERT"

\* payload.type === 'INSERT' && payload.table === 'Finish'
IsCompletion(req) == req.type = "INSERT" /\ req.table = "Finish"

\* The responses of the function.
Notified == [status |-> 200, success |-> TRUE, message |-> "Webhook notified successfully"]
Ignored == [status |-> 200, success |-> TRUE, message |-> "Ignored unrelated event"]
Failed(message) == [status |-> 400, success |-> FALSE, message |-> message]
NoReply == [status |-> 0, success |-> FALSE, message |-> ""]

\* The forwarder between requests: req is the request served last, posts the POSTs
\* made while serving it, total the number of POSTs ever made, reply its response.
ForwarderIdle ==
    [stage |-> "idle", req |-> NotJson, posts |-> <<>>, total |-> 0, reply |-> NoReply]

\* The database webhook before any write: events are the events the database has
\* emitted, in order; the first `delivered` of them have been handed to the
\* forwarder, and log holds, for each of those, the session_id of the POSTs the
\* forwarder made for it.
HookIdle == [events |-> <<>>, delivered |-> 0, log |-> <<>>]

\* The event the database emits when the save call c has changed a collection from
\* `before` to `after`: an INSERT when the upsert added a row, an UPDATE when it
\* changed one, with the columns of the written row that the forwarder reads.
\* origin records the handler that sent the save.
DatabaseEvent(before, after, c) ==
    [type |-> IF Len(after) > Len(before) THEN "INSERT" ELSE "UPDATE",
     table |-> c.table,
     record |-> [f \in RecordFields |-> Get(fetchLatest(after, c.sid).v, f)],
     origin |-> c.origin]

\* The request body of an event.
RequestOf(e) == [parses |-> TRUE, type |-> e.type, table |-> e.table, record |-> Val(e.record)]

----------------------------------------------------------------------------
\* Initial state: no page loaded, empty store.

Init ==
    /\ storage = [t \in Tabs |-> NoEntry]
    /\ storageOk \in [Tabs -> BOOLEAN]
    /\ sessionId = [t \in Tabs |-> ""]
    /\ route = [t \in Tabs |-> "closed"]
    /\ formData = [t \in Tabs |-> EmptyFormData]
    /\ dpForm = [t \in Tabs |-> DPUnmounted]
    /\ pfForm = [t \in Tabs |-> PFUnmounted]
    /\ errors = [t \in Tabs |-> {}]
    /\ isSubmitted = [t \in Tabs |-> FALSE]
    /\ isLoading = [t \in Tabs |-> FALSE]
    /\ error = [t \in Tabs |-> Null]
    /\ toasts = [t \in Tabs |-> {}]
    /\ net = [t \in Tabs |-> <<>>]
    /\ store = [c \in Tables |-> <<>>]
    /\ ops = 0
    /\ fwd = ForwarderIdle
    /\ hook = HookIdle

\* The tokens no browsing context, call or row holds: crypto.randomUUID() returns
\* one of them.
UsedTokens ==
    {storage[t] : t \in Tabs} \cup {sessionId[t] : t \in Tabs}
    \cup UNION {{net[t][i].sid : i \in 1..Len(net[t])} : t \in Tabs}
    \cup UNION {{store[c][i].row["session_id"].v : i \in 1..Len(store[c])} : c \in Tables}

FreshTokens == Tokens \ UsedTokens

\* Tokens are opaque: the first unused one stands for the value randomUUID returns.
NewToken ==
    TokenList[CHOOSE i \in 1..Len(TokenList) :
                /\ TokenList[i] \in FreshTokens
                /\ \A j \in 1..(i - 1) : TokenList[j] \notin FreshTokens]

\* An effect that takes a new token on every mount.
storedOrNewAlways(stored, new) == new

\* FormLayout effect: the stored session id, or a new one when none is stored.
storedOrNew(stored, new) == IF stored = NoEntry \/ stored = "" THEN new ELSE stored

\* A route component mounts under session sid with aggregator fd: useForm takes its
\* default values from fd, and the hydration effect calls fetchLatestEntry, which
\* sets isLoading and clears error before it awaits the store.
Mount(t, r, fd, sid, calls) ==
    /\ route' = [route EXCEPT ![t] = r]
    /\ dpForm' = [dpForm EXCEPT ![t] =
            IF r = "/requirements" THEN dpDefaultValues(fd) ELSE DPUnmounted]
    /\ pfForm' = [pfForm EXCEPT ![t] =
            IF r = "/finish" THEN pfDefaultValues(fd) ELSE PFUnmounted]
    /\ errors' = [errors EXCEPT ![t] = {}]
    /\ isSubmitted' = [isSubmitted EXCEPT ![t] = FALSE]
    /\ isLoading' = [isLoading EXCEPT ![t] = (r # "/basicinfo")]
    /\ error' = [error EXCEPT ![t] = Null]
    /\ toasts' = [toasts EXCEPT ![t] = {}]
    /\ net' = [net EXCEPT ![t] =
            IF r = "/basicinfo" THEN calls ELSE Append(calls, FetchCall(TableOf(r), sid))]

\* The page of tab t loads at route r in a browsing context whose stored session
\* entry is `stored` (the user is taken to reload or navigate only while no store
\* call of the tab is pending). React state starts afresh; FormLayout's effect reads the
\* stored session id, creates and stores one when there is none, and sets
\* sessionId, after which the route component mounts. When sessionStorage cannot
\* be read the effect throws before setSessionId.
LoadPage(t, r, stored) ==
    /\ stored = NoEntry /\ storageOk[t] => FreshTokens # {}
    /\ net[t] = <<>>
    /\ formData' = [formData EXCEPT ![t] = EmptyFormData]
    /\ IF storageOk[t]
       THEN LET sid == storedOrNew(stored, IF FreshTokens # {} THEN NewToken ELSE stored)
            IN /\ storage' = [storage EXCEPT ![t] = sid]
               /\ sessionId' = [sessionId EXCEPT ![t] = sid]
               /\ Mount(t, r, EmptyFormData, sid, net[t])
       ELSE /\ sessionId' = [sessionId EXCEPT ![t] = ""]
            /\ route' = [route EXCEPT ![t] = r]
            /\ dpForm' = [dpForm EXCEPT ![t] = DPUnmounted]
            /\ pfForm' = [pfForm EXCEPT ![t] = PFUnmounted]
            /\ errors' = [errors EXCEPT ![t] = {}]
            /\ isSubmitted' = [isSubmitted EXCEPT ![t] = FALSE]
            /\ isLoading' = [isLoading EXCEPT ![t] = FALSE]
            /\ error' = [error EXCEPT ![t] = Null]
            /\ toasts' = [toasts EXCEPT ![t] = {}]
            /\ UNCHANGED <<net, storage>>

\* The user opens or reloads the page of tab t at route r.
PageLoad(t, r) ==
    /\ ops < MaxOps
    /\ ops' = ops + 1
    /\ LoadPage(t, r, storage[t])
    /\ UNCHANGED <<storageOk, store, fwd, hook>>

\* The user duplicates tab t into the unused tab u: the new browsing context starts
\* with a copy of t's sessionStorage and loads the page t shows.
DuplicateTab(t, u) ==
    /\ ops < MaxOps
    /\ t # u
    /\ route[t] # "closed"
    /\ route[u] = "closed"
    /\ storageOk[t] /\ storageOk[u]
    /\ ops' = ops + 1
    /\ LoadPage(u, route[t], storage[t])
    /\ UNCHANGED <<storageOk, store, fwd, hook>>

\* The step pages are rendered: FormLayout renders the Outlet only with a session id.
Rendered(t) == route[t] # "closed" /\ sessionId[t] # ""

\* History navigation inside the loaded page (browser back / forward): the mounted
\* route component unmounts and the one of route r mounts.
GoTo(t, r) ==
    /\ ops < MaxOps
    /\ Rendered(t)
    /\ r # route[t]
    /\ net[t] = <<>>
    /\ ops' = ops + 1
    /\ Mount(t, r, formData[t], sessionId[t], net[t])
    /\ UNCHANGED <<storage, storageOk, sessionId, formData, store, fwd, hook>>

\* The user edits the digital-presence form until it reads f. Once the form was
\* submitted, react-hook-form validates again on every change.
FillDP(t, f) ==
    /\ ops < MaxOps
    /\ Rendered(t)
    /\ route[t] = "/requirements"
    /\ f # dpForm[t]
    /\ dpForm' = [dpForm EXCEPT ![t] = f]
    /\ errors' = [errors EXCEPT ![t] = IF isSubmitted[t] THEN checklistSchema(f) ELSE @]
    /\ ops' = ops + 1
    /\ UNCHANGED <<storage, storageOk, sessionId, route, formData, pfForm, isSubmitted,
                   isLoading, error, toasts, net, store, fwd, hook>>

PFErrors(f) == {<<x, "profile">> : x \in profileSchema(f)}

\* The user edits the professional / financial form until it reads f.
FillPF(t, f) ==
    /\ ops < MaxOps
    /\ Rendered(t)
    /\ route[t] = "/finish"
    /\ f # pfForm[t]
    /\ pfForm' = [pfForm EXCEPT ![t] = f]
    /\ errors' = [errors EXCEPT ![t] = IF isSubmitted[t] THEN PFErrors(f) ELSE @]
    /\ ops' = ops + 1
    /\ UNCHANGED <<storage, storageOk, sessionId, route, formData, dpForm, isSubmitted,
                   isLoading, error, toasts, net, store, fwd, hook>>

\* Submit of the basic-info step with the form reading data: handleSubmit
\* validates with the zod resolver and calls onSubmit when there is no error;
\* onSubmit calls the onNext prop, which the router does not pass, so the call
\* throws: nothing is saved and the tab stays on the step.
SubmitIntake(t, data) ==
    /\ ops < MaxOps
    /\ Rendered(t)
    /\ route[t] = "/basicinfo"
    /\ ops' = ops + 1
    /\ isSubmitted' = [isSubmitted EXCEPT ![t] = TRUE]
    /\ errors' = [errors EXCEPT ![t] = {<<f, "intake">> : f \in intakeSchema(data)}]
    /\ UNCHANGED <<storage, storageOk, sessionId, route, formData, dpForm, pfForm,
                   isLoading, error, toasts, net, store, fwd, hook>>

\* saveEntry up to its await: isLoading is set, error is cleared and the upsert of
\* the payload (with the session id) is sent.
SaveStart(t, payload, origin) ==
    /\ isLoading' = [isLoading EXCEPT ![t] = TRUE]
    /\ error' = [error EXCEPT ![t] = Null]
    /\ net' = [net EXCEPT ![t] =
            Append(@, SaveCall(TableOf(route[t]), sessionId[t], payload, origin))]

\* Buttons that stay enabled while a call is pending.
CanClickAlways(t, r) == Rendered(t) /\ route[t] = r

\* The Submit and Back buttons are disabled while isLoading.
CanClick(t, r) == Rendered(t) /\ route[t] = r /\ ~isLoading[t]

\* A Submit of step 2 that runs handleFormSubmit whatever the resolver reports.
SubmitDPUnchecked(t) ==
    /\ ops < MaxOps
    /\ CanClick(t, "/requirements")
    /\ ops' = ops + 1
    /\ isSubmitted' = [isSubmitted EXCEPT ![t] = TRUE]
    /\ errors' = [errors EXCEPT ![t] = checklistSchema(dpForm[t])]
    /\ toasts' = [toasts EXCEPT ![t] =
            IF disabledTools(dpForm[t]) # {} THEN {"skipped"} ELSE {}]
    /\ formData' = [formData EXCEPT ![t] = updateFormData(@, dpObject(dpForm[t]))]
    /\ SaveStart(t, dpPayload(dpForm[t]), "submit")
    /\ UNCHANGED <<storage, storageOk, sessionId, route, dpForm, pfForm, store, fwd, hook>>

\* Submit of the digital-presence step: handleSubmit validates with the zod
\* resolver and calls handleFormSubmit only when there is no error.
SubmitDP(t) ==
    /\ ops < MaxOps
    /\ CanClick(t, "/requirements")
    /\ ops' = ops + 1
    /\ isSubmitted' = [isSubmitted EXCEPT ![t] = TRUE]
    /\ errors' = [errors EXCEPT ![t] = checklistSchema(dpForm[t])]
    /\ IF checklistSchema(dpForm[t]) # {}
       THEN /\ toasts' = [toasts EXCEPT ![t] = {}]
            /\ UNCHANGED <<formData, isLoading, error, net>>
       ELSE /\ toasts' = [toasts EXCEPT ![t] =
                    IF disabledTools(dpForm[t]) # {} THEN {"skipped"} ELSE {}]
            /\ formData' = [formData EXCEPT ![t] = updateFormData(@, dpObject(dpForm[t]))]
            /\ SaveStart(t, dpPayload(dpForm[t]), "submit")
    /\ UNCHANGED <<storage, storageOk, sessionId, route, dpForm, pfForm, store, fwd, hook>>

\* Back of the digital-presence step: the current values are saved without
\* validation.
BackDP(t) ==
    /\ ops < MaxOps
    /\ CanClick(t, "/requirements")
    /\ ops' = ops + 1
    /\ toasts' = [toasts EXCEPT ![t] = {}]
    /\ formData' = [formData EXCEPT ![t] = updateFormData(@, dpObject(dpForm[t]))]
    /\ SaveStart(t, dpPayload(dpForm[t]), "back")
    /\ UNCHANGED <<storage, storageOk, sessionId, route, dpForm, pfForm, errors,
                   isSubmitted, store, fwd, hook>>

\* A Submit of step 3 that leaves the aggregator alone when it sends the save.
SubmitPFNoMerge(t) ==
    /\ ops < MaxOps
    /\ CanClick(t, "/finish")
    /\ ops' = ops + 1
    /\ isSubmitted' = [isSubmitted EXCEPT ![t] = TRUE]
    /\ errors' = [errors EXCEPT ![t] = PFErrors(pfForm[t])]
    /\ toasts' = [toasts EXCEPT ![t] = {}]
    /\ IF profileSchema(pfForm[t]) # {}
       THEN UNCHANGED <<formData, isLoading, error, net>>
       ELSE /\ UNCHANGED formData
            /\ SaveStart(t, pfPayload(profileParsed(pfForm[t])), "submit")
    /\ UNCHANGED <<storage, storageOk, sessionId, route, dpForm, pfForm, store, fwd, hook>>

\* Submit of the professional / financial step.
SubmitPF(t) ==
    /\ ops < MaxOps
    /\ CanClick(t, "/finish")
    /\ ops' = ops + 1
    /\ isSubmitted' = [isSubmitted EXCEPT ![t] = TRUE]
    /\ errors' = [errors EXCEPT ![t] = PFErrors(pfForm[t])]
    /\ toasts' = [toasts EXCEPT ![t] = {}]
    /\ IF profileSchema(pfForm[t]) # {}
       THEN UNCHANGED <<formData, isLoading, error, net>>
       ELSE /\ formData' = [formData EXCEPT ![t] =
                    updateFormData(@, profileParsed(pfForm[t]))]
            /\ SaveStart(t, pfPayload(profileParsed(pfForm[t])), "submit")
    /\ UNCHANGED <<storage, storageOk, sessionId, route, dpForm, pfForm, store, fwd, hook>>

\* Back of the professional / financial step.
BackPF(t) ==
    /\ ops < MaxOps
    /\ CanClick(t, "/finish")
    /\ ops' = ops + 1
    /\ toasts' = [toasts EXCEPT ![t] = {}]
    /\ formData' = [formData EXCEPT ![t] = updateFormData(@, pfForm[t])]
    /\ SaveStart(t, pfPayload(pfForm[t]), "back")
    /\ UNCHANGED <<storage, storageOk, sessionId, route, dpForm, pfForm, errors,
                   isSubmitted, store, fwd, hook>>

----------------------------------------------------------------------------
\* The store and the calls' continuations.

Outcomes == {"ok", "error", "throw", "lost"}

\* The store (or the transport) handles call i of tab t. "ok": the store answers
\* without error; "error": it answers with an error and changes nothing; "throw":
\* the call fails before it reaches the store; "lost": the store handles the call
\* and the answer is lost, which the caller sees as a thrown exception.
StoreHandle(t, i, outcome) ==
    LET c == net[t][i]
        reached == outcome \in {"ok", "lost"}
        answered == [c EXCEPT !.stage = IF outcome = "lost" THEN "throw" ELSE outcome,
                              !.data = IF c.kind = "fetch" /\ outcome = "ok"
                                       THEN fetchLatest(store[c.table], c.sid) ELSE Null]
    IN /\ c.stage = "sent"
       /\ store' = IF c.kind = "save" /\ reached
                   THEN [store EXCEPT ![c.table] = upsert(@, c.payload.v)]
                   ELSE store
       /\ net' = [net EXCEPT ![t][i] = answered]
       /\ UNCHANGED <<storage, storageOk, sessionId, route, formData, dpForm, pfForm,
                      errors, isSubmitted, isLoading, error, toasts, ops, fwd>>

\* The store handling a call while no database webhook is attached to it.
StoreProcess(t, i, outcome) == StoreHandle(t, i, outcome) /\ UNCHANGED hook

\* A hook that records no message for a failed call.
ErrorMessageNone(c) == Null

\* The message the hook leaves in error: the store's message, or the catch block's.
ErrorMessage(c) ==
    IF c.stage = "error" THEN Val("store error")
    ELSE IF c.kind = "fetch" THEN Val("An unexpected error occurred while fetching data.")
    ELSE Val("An unexpected error occurred while saving data.")

\* A fetch that resolves to a row without values where the hook resolves to null.
CallResultBlank(c) ==
    IF c.stage = "ok" /\ IsVal(c.data) THEN c.data
    ELSE Val([col \in (IF c.table = "requirements" THEN DPCols ELSE PFCols) \cup {"session_id"} |->
                 IF col = "session_id" THEN Val(c.sid) ELSE Null])

\* A save that counts as failed only when the store answered with an error.
CallSucceededUnlessError(c) == c.stage # "error"

\* fetchLatestEntry resolves to the row, or to null on no row, error or exception;
\* saveEntry resolves to true only when the store answered without error.
CallResult(c) == IF c.stage = "ok" THEN c.data ELSE Null
CallSucceeded(c) == c.stage = "ok"

\* A Back that navigates only when its save succeeded.
NavigateTargetIfSaved(t, c) ==
    IF ~CallSucceeded(c) THEN route[t]
    ELSE IF c.table = "requirements"
         THEN (IF c.origin = "back" THEN "/basicinfo" ELSE "/finish")
         ELSE (IF c.origin = "back" THEN "/requirements" ELSE route[t])

\* A Submit of step 2 that advances whatever its save returned.
NavigateTargetAlways(t, c) ==
    IF c.table = "requirements"
    THEN (IF c.origin = "back" THEN "/basicinfo" ELSE "/finish")
    ELSE (IF c.origin = "back" THEN "/requirements" ELSE route[t])

\* Where the continuation of a save navigates to (no navigation: the current route).
NavigateTarget(t, c) ==
    IF c.table = "requirements"
    THEN (IF c.origin = "back" THEN "/basicinfo"
          ELSE IF CallSucceeded(c) THEN "/finish" ELSE route[t])
    ELSE (IF c.origin = "back" THEN "/requirements" ELSE route[t])

\* The notice the continuation of a save shows: toast.error of step 2 (its Toaster
\* is part of the component), the alerts of step 3.
SaveNotice(c) ==
    IF c.table = "requirements"
    THEN (IF c.origin = "submit" /\ ~CallSucceeded(c) THEN {"saveFailed"} ELSE {})
    ELSE (IF c.origin = "submit"
          THEN (IF CallSucceeded(c) THEN {"complete"} ELSE {"finishFailed"})
          ELSE {})

\* A hook without the finally block: isLoading is cleared only after a call that
\* succeeded.
ResumeNoFinally(t, i) ==
    LET c == net[t][i]
        rest == Remove(net[t], i)
        row == CallResult(c)
        target == NavigateTarget(t, c)
    IN /\ c.stage # "sent"
       /\ UNCHANGED <<storage, storageOk, sessionId, store, ops, fwd, hook>>
       /\ IF c.kind = "fetch"
          THEN /\ net' = [net EXCEPT ![t] = rest]
               /\ isLoading' = [isLoading EXCEPT ![t] = ~CallSucceeded(c)]
               /\ error' = [error EXCEPT ![t] =
                        IF CallSucceeded(c) THEN @ ELSE ErrorMessage(c)]
               /\ IF IsVal(row)
                  THEN LET mapped == IF c.table = "requirements"
                                     THEN dpObject(dpMappedData(row.v))
                                     ELSE pfMappedData(row.v)
                       IN /\ formData' = [formData EXCEPT ![t] = updateFormData(@, mapped)]
                          /\ dpForm' = [dpForm EXCEPT ![t] =
                                IF c.table = "requirements" THEN dpMappedData(row.v) ELSE @]
                          /\ pfForm' = [pfForm EXCEPT ![t] =
                                IF c.table = "Finish"
                                THEN resetValues(PFFields, mapped) ELSE @]
                          /\ errors' = [errors EXCEPT ![t] = {}]
                          /\ isSubmitted' = [isSubmitted EXCEPT ![t] = FALSE]
                  ELSE UNCHANGED <<formData, dpForm, pfForm, errors, isSubmitted>>
               /\ UNCHANGED <<route, toasts>>
          ELSE /\ UNCHANGED formData
               /\ IF target # route[t]
                  THEN Mount(t, target, formData[t], sessionId[t], rest)
                  ELSE /\ net' = [net EXCEPT ![t] = rest]
                       /\ isLoading' = [isLoading EXCEPT ![t] = ~CallSucceeded(c)]
                       /\ error' = [error EXCEPT ![t] =
                                IF CallSucceeded(c) THEN @ ELSE ErrorMessage(c)]
                       /\ toasts' = [toasts EXCEPT ![t] = SaveNotice(c)]
                       /\ UNCHANGED <<route, dpForm, pfForm, errors, isSubmitted>>

\* A hydration that resets the form only when the user has not edited it since
\* the mount (reset with keepDirtyValues).
ResumeKeepEdits(t, i) ==
    LET c == net[t][i]
        rest == Remove(net[t], i)
        row == CallResult(c)
        target == NavigateTarget(t, c)
    IN /\ c.stage # "sent"
       /\ UNCHANGED <<storage, storageOk, sessionId, store, ops, fwd, hook>>
       /\ IF c.kind = "fetch"
          THEN /\ net' = [net EXCEPT ![t] = rest]
               /\ isLoading' = [isLoading EXCEPT ![t] = FALSE]
               /\ error' = [error EXCEPT ![t] =
                        IF CallSucceeded(c) THEN @ ELSE ErrorMessage(c)]
               /\ IF IsVal(row)
                  THEN LET mapped == IF c.table = "requirements"
                                     THEN dpObject(dpMappedData(row.v))
                                     ELSE pfMappedData(row.v)
                       IN /\ formData' = [formData EXCEPT ![t] = updateFormData(@, mapped)]
                          /\ dpForm' = [dpForm EXCEPT ![t] =
                                IF c.table = "requirements" /\ @ = dpDefaultValues(formData[t])
                                THEN dpMappedData(row.v) ELSE @]
                          /\ pfForm' = [pfForm EXCEPT ![t] =
                                IF c.table = "Finish" /\ @ = pfDefaultValues(formData[t])
                                THEN resetValues(PFFields, mapped) ELSE @]
                          /\ errors' = [errors EXCEPT ![t] = {}]
                          /\ isSubmitted' = [isSubmitted EXCEPT ![t] = FALSE]
                  ELSE UNCHANGED <<formData, dpForm, pfForm, errors, isSubmitted>>
               /\ UNCHANGED <<route, toasts>>
          ELSE /\ UNCHANGED formData
               /\ IF target # route[t]
                  THEN Mount(t, target, formData[t], sessionId[t], rest)
                  ELSE /\ net' = [net EXCEPT ![t] = rest]
                       /\ isLoading' = [isLoading EXCEPT ![t] = FALSE]
                       /\ error' = [error EXCEPT ![t] =
                                IF CallSucceeded(c) THEN @ ELSE ErrorMessage(c)]
                       /\ toasts' = [toasts EXCEPT ![t] = SaveNotice(c)]
                       /\ UNCHANGED <<route, dpForm, pfForm, errors, isSubmitted>>

\* Call i of tab t returns to its caller. The hook's finally block clears isLoading
\* and a failure sets error; then the caller's continuation runs: the hydration
\* effect resets the form to the mapped row and merges it into the aggregator,
\* handleFormSubmit and handleBack navigate or show a notice.
Resume(t, i) ==
    LET c == net[t][i]
        rest == Remove(net[t], i)
        row == CallResult(c)
        target == NavigateTarget(t, c)
    IN /\ c.stage # "sent"
       /\ UNCHANGED <<storage, storageOk, sessionId, store, ops, fwd, hook>>
       /\ IF c.kind = "fetch"
          THEN /\ net' = [net EXCEPT ![t] = rest]
               /\ isLoading' = [isLoading EXCEPT ![t] = FALSE]
               /\ error' = [error EXCEPT ![t] =
                        IF CallSucceeded(c) THEN @ ELSE ErrorMessage(c)]
               /\ IF IsVal(row)
                  THEN LET mapped == IF c.table = "requirements"
                                     THEN dpObject(dpMappedData(row.v))
                                     ELSE pfMappedData(row.v)
                       IN /\ formData' = [formData EXCEPT ![t] = updateFormData(@, mapped)]
                          /\ dpForm' = [dpForm EXCEPT ![t] =
                                IF c.table = "requirements" THEN dpMappedData(row.v) ELSE @]
                          /\ pfForm' = [pfForm EXCEPT ![t] =
                                IF c.table = "Finish"
                                THEN resetValues(PFFields, mapped) ELSE @]
                          /\ errors' = [errors EXCEPT ![t] = {}]
                          /\ isSubmitted' = [isSubmitted EXCEPT ![t] = FALSE]
                  ELSE UNCHANGED <<formData, dpForm, pfForm, errors, isSubmitted>>
               /\ UNCHANGED <<route, toasts>>
          ELSE /\ UNCHANGED formData
               /\ IF target # route[t]
                  THEN Mount(t, target, formData[t], sessionId[t], rest)
                  ELSE /\ net' = [net EXCEPT ![t] = rest]
                       /\ isLoading' = [isLoading EXCEPT ![t] = FALSE]
                       /\ error' = [error EXCEPT ![t] =
                                IF CallSucceeded(c) THEN @ ELSE ErrorMessage(c)]
                       /\ toasts' = [toasts EXCEPT ![t] = SaveNotice(c)]
                       /\ UNCHANGED <<route, dpForm, pfForm, errors, isSubmitted>>

Next ==
    \/ \E t \in Tabs, r \in Routes : PageLoad(t, r)
    \/ \E t, u \in Tabs : DuplicateTab(t, u)
    \/ \E t \in Tabs, r \in Routes : GoTo(t, r)
    \/ \E t \in Tabs, f \in DPSamples : FillDP(t, f)
    \/ \E t \in Tabs, f \in PFSamples : FillPF(t, f)
    \/ \E t \in Tabs, data \in IntakeSamples : SubmitIntake(t, data)
    \/ \E t \in Tabs : SubmitDP(t)
    \/ \E t \in Tabs : BackDP(t)
    \/ \E t \in Tabs : SubmitPF(t)
    \/ \E t \in Tabs : BackPF(t)
    \/ \E t \in Tabs : \E i \in 1..Len(net[t]), o \in Outcomes : StoreProcess(t, i, o)
    \/ \E t \in Tabs : \E i \in 1..Len(net[t]) : Resume(t, i)

Spec == Init /\ [][Next]_vars

----------------------------------------------------------------------------
\* The completion forwarder serving requests one after the other.

\* The handler up to its await of the outbound fetch: req.json() throws for a body
\* that is not JSON and destructuring payload.record throws when there is no
\* record (both are answered 400 by the catch block); any other event than an
\* INSERT on Finish is answered as ignored; for an INSERT on Finish the POST is sent.
Handle(req) ==
    fwd' =
          IF ~req.parses
          THEN [fwd EXCEPT !.stage = "done", !.req = req, !.posts = <<>>,
                           !.reply = Failed("Unexpected token")]
          ELSE IF ~IsCompletion(req)
          THEN [fwd EXCEPT !.stage = "done", !.req = req, !.posts = <<>>, !.reply = Ignored]
          ELSE IF req.record = Undef
          THEN [fwd EXCEPT !.stage = "done", !.req = req, !.posts = <<>>,
                           !.reply = Failed("Cannot destructure property")]
          ELSE [fwd EXCEPT !.stage = "posting", !.req = req,
                           !.posts = <<notification(req.record.v)>>,
                           !.total = @ + 1, !.reply = NoReply]

\* A request reaches the function while it serves no other.
Serve(req) ==
    /\ ops < MaxOps
    /\ fwd.stage # "posting"
    /\ ops' = ops + 1
    /\ Handle(req)
    /\ UNCHANGED <<wizardVars, hook>>

\* The external webhook answers the POST with a status: a response that is not ok
\* is thrown as an error and answered 400, without another POST.
WebhookAnswer(status) ==
    /\ fwd.stage = "posting"
    /\ fwd' = [fwd EXCEPT !.stage = "done",
                          !.reply = IF ResponseOk(status) THEN Notified
                                    ELSE Failed("Webhook failed with status")]
    /\ UNCHANGED <<wizardVars, ops, hook>>

\* The outbound fetch throws (the endpoint cannot be reached): answered 400.
WebhookUnreachable ==
    /\ fwd.stage = "posting"
    /\ fwd' = [fwd EXCEPT !.stage = "done", !.reply = Failed("fetch failed")]
    /\ UNCHANGED <<wizardVars, ops, hook>>

InitForwarder == Init /\ storageOk = [t \in Tabs |-> TRUE]

NextForwarder ==
    \/ \E req \in Requests : Serve(req)
    \/ \E status \in WebhookStatuses : WebhookAnswer(status)
    \/ WebhookUnreachable

SpecForwarder == InitForwarder /\ [][NextForwarder]_vars

----------------------------------------------------------------------------
\* Properties of the session identity provider and of the row store adapter.

\* The row a payload is stored as: its keys are the columns, undefined is null.
StoredImage(payload) == [c \in DOMAIN payload |-> IF payload[c] = Undef THEN Null ELSE payload[c]]

\* The step in which the store answers save call i of tab t without error.
SaveAnswered(t, i) ==
    /\ i \in 1..Len(net[t])
    /\ net[t][i].kind = "save"
    /\ net[t][i].stage = "sent"
    /\ Len(net'[t]) = Len(net[t])
    /\ net'[t][i].stage = "ok"

\* The step in which a save call i of tab t reaches the store, answered or not.
SaveHandled(t, i) ==
    /\ i \in 1..Len(net[t])
    /\ net[t][i].kind = "save"
    /\ net[t][i].stage = "sent"
    /\ Len(net'[t]) = Len(net[t])
    /\ net'[t][i].stage # "sent"

C3_SessionIdStable ==
    [][\A t \in Tabs :
         /\ storage[t] # NoEntry => storage'[t] = storage[t]
         /\ sessionId'[t] # "" => sessionId'[t] = storage'[t]
         /\ (storage[t] = NoEntry /\ storage'[t] # NoEntry)
            => \/ storage'[t] \notin UsedTokens
               \/ \E u \in Tabs \ {t} : route[u] # "closed" /\ storage'[t] = storage[u]]_vars

\* A tab that saved its step-2 row was reloaded afterwards (its aggregator is empty
\* again) and still runs under the session id of that row.
C3_Witness ==
    \E t \in Tabs :
        /\ \A u \in Tabs \ {t} : route[u] = "closed"
        /\ sessionId[t] # ""
        /\ sessionId[t] = storage[t]
        /\ formData[t] = EmptyFormData
        /\ SessionRows(store["requirements"], sessionId[t]) # {}

\* C4: every loaded page has obtained a non-empty session id, also when the stored
\* session entry cannot be read.
C4_SessionAlwaysObtained ==
    \A t \in Tabs : route[t] # "closed" => sessionId[t] # ""

----------------------------------------------------------------------------
\* A second specification for the claims about validation and the payload
\* mapping: the first tab shows step 2 or step 3 with its hydration finished, the
\* form holds any combination of the modelled inputs, and the user clicks Submit
\* or Back once.

FirstTab == "t1"
FirstToken == TokenList[1]

Malformed == "x"

TypedValue(tool, k) ==
    CASE k = 1 -> ""
      [] k = 2 -> Malformed
      [] k = 3 -> GoodValue(tool)

TypedChoices(tool) == IF tool \in {"whatsapp", "github"} THEN 1..3 ELSE {1, 3}

DPInputs ==
    { [t \in ToolSet |->
          IF t \in StringTools
          THEN [enabled |-> e[t], value |-> TypedValue(t, k[t])]
          ELSE [enabled |-> e[t], confirmed |-> cf[t]]] :
      e \in [ToolSet -> BOOLEAN],
      k \in {c \in [StringTools -> 1..3] : \A t \in StringTools : c[t] \in TypedChoices(t)},
      cf \in [BoolTools -> BOOLEAN] }

PFInputs ==
    { [f \in PFFields |->
          CASE f = "paymentMethod" -> Val(pm)
            [] f = "taxDeclaration" -> Val(base)
            [] f = "primarySkills" -> Val(skills)
            [] f \in BaseFields -> IF base THEN PFForm(pm, TRUE, skills, PFFields)[f] ELSE Undef
            [] f \in {"wiseEmail", "walletAddress"} ->
                  IF k[f] = 1 THEN Undef ELSE IF k[f] = 2 THEN Val("")
                  ELSE PFForm(pm, TRUE, skills, PFFields)[f]
            [] OTHER -> IF k[f] = 1 THEN Undef ELSE PFForm(pm, TRUE, skills, PFFields)[f]] :
      pm \in PaymentMethods, base \in BOOLEAN, skills \in {<<>>, <<React>>, <<React, Node>>},
      k \in [BankFields \cup WiseFields \cup CryptoFields -> 1..3] }

InitForms ==
    /\ storage = [t \in Tabs |-> IF t = FirstTab THEN FirstToken ELSE NoEntry]
    /\ storageOk = [t \in Tabs |-> TRUE]
    /\ sessionId = [t \in Tabs |-> IF t = FirstTab THEN FirstToken ELSE ""]
    /\ formData = [t \in Tabs |-> EmptyFormData]
    /\ \/ /\ route = [t \in Tabs |-> IF t = FirstTab THEN "/requirements" ELSE "closed"]
          /\ \E f \in DPInputs : dpForm = [t \in Tabs |-> IF t = FirstTab THEN f ELSE DPUnmounted]
          /\ pfForm = [t \in Tabs |-> PFUnmounted]
       \/ /\ route = [t \in Tabs |-> IF t = FirstTab THEN "/finish" ELSE "closed"]
          /\ dpForm = [t \in Tabs |-> DPUnmounted]
          /\ \E f \in PFInputs : pfForm = [t \in Tabs |-> IF t = FirstTab THEN f ELSE PFUnmounted]
    /\ errors = [t \in Tabs |-> {}]
    /\ isSubmitted = [t \in Tabs |-> FALSE]
    /\ isLoading = [t \in Tabs |-> FALSE]
    /\ error = [t \in Tabs |-> Null]
    /\ toasts = [t \in Tabs |-> {}]
    /\ net = [t \in Tabs |-> <<>>]
    /\ store = [c \in Tables |-> <<>>]
    /\ ops = MaxOps - 1
    /\ fwd = ForwarderIdle
    /\ hook = HookIdle

NextForms ==
    \/ \E t \in Tabs : SubmitDP(t)
    \/ \E t \in Tabs : BackDP(t)
    \/ \E t \in Tabs : SubmitPF(t)
    \/ \E t \in Tabs : BackPF(t)

SpecForms == InitForms /\ [][NextForms]_vars

----------------------------------------------------------------------------
\* The wizard's final step, the store with its database webhook, and the
\* forwarder: a third specification, in which the first tab shows step 3 with its
\* hydration finished and a form filled in.

\* The store handles a call and, for a save that reached it, the database emits the
\* event of the write.
StoreNotify(t, i, outcome) ==
    /\ StoreHandle(t, i, outcome)
    /\ hook' = IF net[t][i].kind = "save" /\ outcome \in {"ok", "lost"}
               THEN [hook EXCEPT !.events =
                        Append(@, DatabaseEvent(store[net[t][i].table],
                                                store'[net[t][i].table], net[t][i]))]
               ELSE hook

\* The webhook hands the next event to the forwarder, which handles it.
Deliver ==
    /\ hook.delivered < Len(hook.events)
    /\ fwd.stage # "posting"
    /\ Handle(RequestOf(hook.events[hook.delivered + 1]))
    /\ hook' = [hook EXCEPT !.delivered = @ + 1,
                            !.log = Append(@, [j \in 1..Len(fwd'.posts) |->
                                                  fwd'.posts[j].session_id])]
    /\ UNCHANGED <<wizardVars, ops>>

InitCompletion ==
    /\ storage = [t \in Tabs |-> IF t = FirstTab THEN FirstToken ELSE NoEntry]
    /\ storageOk = [t \in Tabs |-> TRUE]
    /\ sessionId = [t \in Tabs |-> IF t = FirstTab THEN FirstToken ELSE ""]
    /\ route = [t \in Tabs |-> IF t = FirstTab THEN "/finish" ELSE "closed"]
    /\ formData = [t \in Tabs |-> EmptyFormData]
    /\ dpForm = [t \in Tabs |-> DPUnmounted]
    /\ \E f \in PFSamples : pfForm = [t \in Tabs |-> IF t = FirstTab THEN f ELSE PFUnmounted]
    /\ errors = [t \in Tabs |-> {}]
    /\ isSubmitted = [t \in Tabs |-> FALSE]
    /\ isLoading = [t \in Tabs |-> FALSE]
    /\ error = [t \in Tabs |-> Null]
    /\ toasts = [t \in Tabs |-> {}]
    /\ net = [t \in Tabs |-> <<>>]
    /\ store = [c \in Tables |-> <<>>]
    /\ ops = 0
    /\ fwd = ForwarderIdle
    /\ hook = HookIdle

NextCompletion ==
    \/ \E t, u \in Tabs : DuplicateTab(t, u)
    \/ \E t \in Tabs, r \in Routes : GoTo(t, r)
    \/ \E t \in Tabs : SubmitPF(t)
    \/ \E t \in Tabs : BackPF(t)
    \/ \E t \in Tabs : \E i \in 1..Len(net[t]), o \in Outcomes : StoreNotify(t, i, o)
    \/ \E t \in Tabs : \E i \in 1..Len(net[t]) : Resume(t, i)
    \/ Deliver
    \/ \E status \in WebhookStatuses : WebhookAnswer(status)
    \/ WebhookUnreachable

SpecCompletion == InitCompletion /\ [][NextCompletion]_vars


----------------------------------------------------------------------------
\* Properties of the digital-presence validator and of the payloads of the steps.

HasIssue(t, tool) == \E e \in errors[t] : e[1] = tool

\* An enabled tool without its value (or confirmation).
Incomplete(data, tool) ==
    /\ data[tool].enabled
    /\ IF tool \in StringTools THEN data[tool].value = "" ELSE ~data[tool].confirmed

\* The save calls tab t sends in a step.
SentNow(t) == {i \in 1..Len(net'[t]) : i > Len(net[t]) /\ net'[t][i].kind = "save"}

\* C5: after a submit of step 2, no validation issue is reported for a tool that is
\* disabled, whatever its value and confirmation are.
C5_DisabledToolPasses ==
    \A t \in Tabs :
        (route[t] = "/requirements" /\ isSubmitted[t])
        => \A tool \in ToolSet : ~dpForm[t][tool].enabled => ~HasIssue(t, tool)

\* C6: after a submit of step 2, every enabled tool whose value is empty, or whose
\* confirmation is false, has a validation issue; and a form with such a tool sends
\* no save from Submit.
C6_EnabledToolRequired ==
    [][\A t \in Tabs :
         /\ (route'[t] = "/requirements" /\ isSubmitted'[t])
            => \A tool \in ToolSet :
                  Incomplete(dpForm'[t], tool) => \E e \in errors'[t] : e[1] = tool
         /\ (route[t] = "/requirements" /\ \E tool \in ToolSet : Incomplete(dpForm[t], tool))
            => \A i \in SentNow(t) : net'[t][i].origin # "submit"]_vars

\* Submit was clicked on a form with an enabled tool without value and an enabled
\* tool without confirmation: both are reported and nothing was sent.
C6_Witness ==
    \E t \in Tabs :
        /\ route[t] = "/requirements" /\ isSubmitted[t]
        /\ Incomplete(dpForm[t], "jira") /\ Incomplete(dpForm[t], "git")
        /\ HasIssue(t, "jira") /\ HasIssue(t, "git")
        /\ net[t] = <<>>

\* C7: the first Submit of step 2 with all seven tools disabled and the form at
\* its default values passes validation, shows the skipped-tools warning and sends
\* the save.
C7_AllDisabledSubmits ==
    [][\A t \in Tabs :
         (/\ route[t] = "/requirements"
          /\ ~isSubmitted[t] /\ isSubmitted'[t]
          /\ dpForm[t] = [tool \in ToolSet |-> ToolDefault(tool)])
         => /\ errors'[t] = {}
            /\ "skipped" \in toasts'[t]
            /\ \E i \in SentNow(t) : net'[t][i].origin = "submit"]_vars

\* C8: every payload sent to "requirements", from Submit and from Back, holds for
\* each tool the form's value when the tool is enabled and otherwise "" (whatsapp,
\* discord, github, jira, Antigravity) or false (git, nodejs).
C8_DisabledNormalized ==
    \A t \in Tabs : \A i \in 1..Len(net[t]) :
        LET p == net[t][i].payload
            f == dpForm[t]
        IN (net[t][i].kind = "save" /\ net[t][i].table = "requirements")
           => /\ DOMAIN p.v = {"whatsapp", "discord", "github", "jira", "git", "nodejs",
                                "Antigravity", "session_id"}
              /\ \A tool \in {"whatsapp", "discord", "github", "jira"} :
                    p.v[tool] = Val(IF f[tool].enabled THEN f[tool].value ELSE "")
              /\ p.v["Antigravity"] =
                    Val(IF f["antigravity"].enabled THEN f["antigravity"].value ELSE "")
              /\ p.v["git"] = Val(IF f["git"].enabled THEN f["git"].confirmed ELSE FALSE)
              /\ p.v["nodejs"] = Val(IF f["node"].enabled THEN f["node"].confirmed ELSE FALSE)

\* A valid form with a typed but disabled whatsapp, a ticked but disabled git and an
\* enabled github was submitted.
C8_Witness ==
    \E t \in Tabs :
        /\ Len(net[t]) = 1
        /\ net[t][1].kind = "save" /\ net[t][1].table = "requirements"
        /\ net[t][1].origin = "submit"
        /\ ~dpForm[t]["whatsapp"].enabled /\ dpForm[t]["whatsapp"].value # ""
        /\ ~dpForm[t]["git"].enabled /\ dpForm[t]["git"].confirmed
        /\ dpForm[t]["github"].enabled
        /\ net[t][1].payload.v["whatsapp"] = Val("")
        /\ net[t][1].payload.v["git"] = Val(FALSE)
        /\ net[t][1].payload.v["github"] = Val(dpForm[t]["github"].value)

\* A save of step 3 sent for a form tagged crypto with network and wallet address.
CryptoSave(t, i) ==
    /\ net[t][i].kind = "save" /\ net[t][i].table = "Finish"
    /\ pfForm[t]["paymentMethod"] = Val("crypto")
    /\ TruthyStr(pfForm[t]["network"])
    /\ TruthyStr(pfForm[t]["walletAddress"])

Empty(w) == ~IsVal(w) \/ w.v = ""

\* C9 as stated: in the row of a crypto submission every bank / wise column (Bank,
\* Holder_name) is empty.
C9_BankColumnsEmpty ==
    \A t \in Tabs : \A i \in 1..Len(net[t]) :
        CryptoSave(t, i)
        => Empty(net[t][i].payload.v["Bank"]) /\ Empty(net[t][i].payload.v["Holder_name"])

\* C9: the payload of a crypto submission holds the wallet address in Account_no,
\* the network in Branch_code, an empty Holder_name and the label 'Crypto' in Bank;
\* no bank or wise value of the form is in any of these columns.
C9_CryptoRow ==
    \A t \in Tabs : \A i \in 1..Len(net[t]) :
        LET p == net[t][i].payload
        IN CryptoSave(t, i)
           => /\ p.v["Payment_method"] = Val("crypto")
              /\ p.v["Bank"] = Val("Crypto")
              /\ p.v["Holder_name"] = Val("")
              /\ p.v["Account_no"] = pfForm[t]["walletAddress"]
              /\ p.v["Branch_code"] = pfForm[t]["network"]
              /\ \A c \in {"Bank", "Account_no", "Branch_code", "Holder_name"} :
                    \A f \in BankFields \cup WiseFields :
                        TruthyStr(pfForm[t][f]) => p.v[c] # pfForm[t][f]

\* A valid crypto form that still holds bank and wise values was submitted.
C9_Witness ==
    \E t \in Tabs :
        /\ Len(net[t]) = 1
        /\ CryptoSave(t, 1)
        /\ net[t][1].origin = "submit"
        /\ \A f \in BankFields \cup WiseFields : TruthyStr(pfForm[t][f])

----------------------------------------------------------------------------
\* Properties of hydration.

\* The store-to-form field mapping of step 2: a tool is enabled when its column
\* holds a non-empty string (or true), and its value is the column.
HydratedTool(row, col) ==
    [enabled |-> row[col] \notin {Null, Val("")},
     value |-> IF row[col] \in {Null, Val("")} THEN "" ELSE row[col].v]

HydratedCheck(row, col) ==
    [enabled |-> row[col] = Val(TRUE), confirmed |-> row[col] = Val(TRUE)]

HydratedDP(row) ==
    [tool \in ToolSet |->
        CASE tool = "whatsapp" -> HydratedTool(row, "whatsapp")
          [] tool = "discord" -> HydratedTool(row, "discord")
          [] tool = "github" -> HydratedTool(row, "github")
          [] tool = "jira" -> HydratedTool(row, "jira")
          [] tool = "antigravity" -> HydratedTool(row, "Antigravity")
          [] tool = "git" -> HydratedCheck(row, "git")
          [] tool = "node" -> HydratedCheck(row, "nodejs")]

\* The skill lists a form can hold, and the list a Skills column stands for: the
\* one that joins to it.
SkillLists == {<<>>, <<React>>, <<Node>>, <<React, Node>>, <<Node, React>>}

SkillsOf(w) ==
    IF w \in {Null, Val(<<>>)} THEN <<>>
    ELSE CHOOSE l \in SkillLists : join(l, Separator) = w.v

Column(row, col, default) == IF row[col] \in {Null, Val("")} THEN Val(default) ELSE row[col]

\* The store-to-form field mapping of step 3: the shared fields (with the form's
\* defaults for the columns without value, and the declaration unticked), then the
\* fields of the payment method the row names.
HydratedPF(row) ==
    [f \in PFFields |->
        CASE f = "workCapacity" -> Column(row, "Work_capacity", "full-time")
          [] f = "timeZone" -> Column(row, "Time_zone", "")
          [] f = "startDate" -> Column(row, "Start_date", "")
          [] f = "primarySkills" -> Val(SkillsOf(row["Skills"]))
          [] f = "experienceLevel" -> Column(row, "Experience_level", "mid-level")
          [] f = "portfolioUrl" -> Column(row, "Portfolio", "")
          [] f = "taxDeclaration" -> Val(FALSE)
          [] f = "paymentMethod" -> Column(row, "Payment_method", "bank")
          [] f = "bankName" ->
                IF row["Payment_method"] = Val("bank") THEN Column(row, "Bank", "") ELSE Undef
          [] f = "accountNumber" ->
                IF row["Payment_method"] = Val("bank") THEN Column(row, "Account_no", "") ELSE Undef
          [] f = "branchCode" ->
                IF row["Payment_method"] = Val("bank") THEN Column(row, "Branch_code", "") ELSE Undef
          [] f = "accountHolderName" ->
                IF row["Payment_method"] = Val("bank") THEN Column(row, "Holder_name", "") ELSE Undef
          [] f = "wiseEmail" ->
                IF row["Payment_method"] = Val("wise") THEN Column(row, "Account_no", "") ELSE Undef
          [] f = "network" ->
                IF row["Payment_method"] = Val("crypto") THEN Column(row, "Branch_code", "") ELSE Undef
          [] f = "walletAddress" ->
                IF row["Payment_method"] = Val("crypto") THEN Column(row, "Account_no", "") ELSE Undef]

\* The step in which the hydration fetch of tab t returns the session's row.
Hydrates(t) ==
    /\ Len(net[t]) = 1
    /\ net[t][1].kind = "fetch"
    /\ net[t][1].stage = "ok"
    /\ IsVal(net[t][1].data)
    /\ net'[t] = <<>>

\* C10: the row a hydration fetch returns is a row saveEntry wrote for the
\* session, and when the fetch returns it the form of the step becomes the
\* store-to-form mapping of exactly that row, and so does the aggregator's entry of
\* every field the mapping has (for step 3: the shared fields and the fields of the
\* row's payment method).
C10_ResumeFidelity ==
    [][\A t \in Tabs :
         Hydrates(t)
         => LET row == net[t][1].data.v
            IN /\ row["session_id"] = Val(sessionId[t])
               /\ net[t][1].table = "requirements"
                  => /\ dpForm'[t] = HydratedDP(row)
                     /\ \A tool \in ToolSet : formData'[t][tool] = Val(HydratedDP(row)[tool])
               /\ net[t][1].table = "Finish"
                  => /\ pfForm'[t] = HydratedPF(row)
                     /\ \A f \in PFFields :
                           HydratedPF(row)[f] # Undef => formData'[t][f] = HydratedPF(row)[f]]_vars

\* A tab saved step 2 with whatsapp enabled, was reloaded, and its hydration has
\* restored the tool from the session's row into the form and the aggregator.
C10_Witness ==
    \E t \in Tabs :
        /\ route[t] = "/requirements"
        /\ net[t] = <<>>
        /\ ~isLoading[t] /\ ~isSubmitted[t] /\ error[t] = Null
        /\ dpForm[t]["whatsapp"].enabled
        /\ formData[t]["whatsapp"] = Val(dpForm[t]["whatsapp"])
        /\ formData[t]["workCapacity"] = Absent
        /\ fetchLatest(store["requirements"], sessionId[t]) # Null
        /\ fetchLatest(store["requirements"], sessionId[t]).v["whatsapp"]
               = Val(dpForm[t]["whatsapp"].value)

----------------------------------------------------------------------------
\* Properties of the step controllers.

\* The step in which the only call of tab t returns to its caller.
Returned(t) ==
    /\ Len(net[t]) = 1
    /\ net[t][1].stage # "sent"
    /\ (net'[t] = <<>> \/ net'[t][1] # net[t][1])

BackTarget(table) == IF table = "requirements" THEN "/basicinfo" ELSE "/requirements"

\* C11: a Back click sends exactly one save, of the values the form holds, without
\* validating them (the field errors stay as they were); and when that save
\* returns, whatever its outcome, the tab navigates to /basicinfo from step 2 and
\* to /requirements from step 3.
C11_BackAlwaysCompletes ==
    [][\A t \in Tabs :
         /\ \A i \in SentNow(t) :
               net'[t][i].origin = "back"
               => /\ SentNow(t) = {i}
                  /\ net'[t][i].stage = "sent"
                  /\ errors'[t] = errors[t] /\ isSubmitted'[t] = isSubmitted[t]
                  /\ net'[t][i].table = "requirements"
                     => \A tool \in ToolSet : formData'[t][tool] = Val(dpForm[t][tool])
                  /\ net'[t][i].table = "Finish"
                     => net'[t][i].payload.v["Payment_method"] = pfForm[t]["paymentMethod"]
         /\ (Returned(t) /\ net[t][1].kind = "save" /\ net[t][1].origin = "back")
            => route'[t] = BackTarget(net[t][1].table)]_vars

\* Back was clicked on step 2, the save did not reach the store, and the tab shows
\* step 1 with the form's values in the aggregator.
C11_Witness ==
    \E t \in Tabs :
        /\ ops = 2
        /\ route[t] = "/basicinfo"
        /\ formData[t]["whatsapp"] # Absent
        /\ store["requirements"] = <<>>

\* C12: a first Submit that leaves field errors sends no store call, changes
\* neither the aggregator nor the route, and leaves the step ready (not loading).
C12_InvalidSubmitNoCall ==
    [][\A t \in Tabs :
         (~isSubmitted[t] /\ isSubmitted'[t] /\ errors'[t] # {})
         => /\ net'[t] = net[t]
            /\ formData'[t] = formData[t]
            /\ route'[t] = route[t]
            /\ ~isLoading'[t]
            /\ store' = store]_vars

\* Submit was clicked on a step-3 form that fails validation: errors, no call.
C12_Witness ==
    \E t \in Tabs :
        /\ route[t] = "/finish"
        /\ isSubmitted[t] /\ errors[t] # {}
        /\ net[t] = <<>> /\ ~isLoading[t]
        /\ formData[t] = EmptyFormData

\* C13: when the save of a Submit returns, step 2 navigates to /finish exactly
\* when the save returned true and step 3 reports completion exactly when it did;
\* otherwise the tab stays on the step with a failure notice and the hook's error,
\* and no further call is sent. Without a user operation, step 2 moves to /finish
\* and the completion notice appears only in such a step.
C13_AdvanceOnlyOnSuccess ==
    [][\A t \in Tabs :
         LET done == Returned(t) /\ net[t][1].kind = "save" /\ net[t][1].origin = "submit"
             ok == net[t][1].stage = "ok"
         IN /\ (done /\ net[t][1].table = "requirements")
               => IF ok THEN route'[t] = "/finish"
                  ELSE /\ route'[t] = "/requirements"
                       /\ "saveFailed" \in toasts'[t]
                       /\ net'[t] = <<>> /\ ~isLoading'[t]
            /\ (done /\ net[t][1].table = "Finish")
               => /\ route'[t] = "/finish"
                  /\ net'[t] = <<>> /\ ~isLoading'[t]
                  /\ IF ok THEN toasts'[t] = {"complete"} ELSE toasts'[t] = {"finishFailed"}
            /\ (ops' = ops /\ route[t] = "/requirements" /\ route'[t] = "/finish")
               => done /\ ok
            /\ ("complete" \in toasts'[t] /\ "complete" \notin toasts[t])
               => done /\ ok /\ net[t][1].table = "Finish"]_vars

\* The save of a valid step-2 Submit failed: the tab is still on step 2 with the
\* failure notice and the hook's error, and nothing is pending.
C13_Witness ==
    \E t \in Tabs :
        /\ route[t] = "/requirements"
        /\ "saveFailed" \in toasts[t]
        /\ error[t] # Null
        /\ net[t] = <<>> /\ ~isLoading[t]

\* C14 as stated: the aggregator is not touched when a Submit sends its save (the
\* merge waits for the save to succeed), so a failed save leaves it as it was.
C14_MergedOnlyAfterSuccess ==
    [][\A t \in Tabs : \A i \in SentNow(t) :
         net'[t][i].origin = "submit" => formData'[t] = formData[t]]_vars

\* C14: a Submit that passes validation merges the submitted values into the
\* aggregator in the step that sends the save, before the save's outcome is known;
\* when the save returns, succeeded or failed, the aggregator still holds them and
\* is not changed again, so the merge precedes the transition and a failed save
\* leaves the submitted values in the aggregator.
C14_MergedBeforeUpsert ==
    [][\A t \in Tabs :
         /\ \A i \in SentNow(t) :
               net'[t][i].origin = "submit"
               => /\ net'[t][i].table = "requirements"
                     => \A tool \in ToolSet : formData'[t][tool] = Val(dpForm[t][tool])
                  /\ net'[t][i].table = "Finish"
                     => \A f \in BaseFields \cup {"paymentMethod"}
                                  \cup VariantFields(pfForm[t]["paymentMethod"].v) :
                           formData'[t][f] = pfForm[t][f]
         /\ (Returned(t) /\ net[t][1].kind = "save" /\ net[t][1].origin = "submit")
            => /\ formData'[t] = formData[t]
               /\ net[t][1].table = "requirements"
                  => /\ IsVal(formData[t]["whatsapp"])
                     /\ net[t][1].payload.v["whatsapp"] =
                           Val(IF formData[t]["whatsapp"].v.enabled
                               THEN formData[t]["whatsapp"].v.value ELSE "")
               /\ net[t][1].table = "Finish"
                  => formData[t]["workCapacity"] = net[t][1].payload.v["Work_capacity"]]_vars

\* The save of a valid step-3 Submit failed without reaching the store, and the
\* aggregator holds the submitted values.
C14_Witness ==
    \E t \in Tabs :
        /\ route[t] = "/finish"
        /\ toasts[t] = {"finishFailed"}
        /\ net[t] = <<>>
        /\ store["Finish"] = <<>>
        /\ IsVal(formData[t]["workCapacity"])
        /\ formData[t]["workCapacity"] = pfForm[t]["workCapacity"]

----------------------------------------------------------------------------
\* Properties of the row store adapter's error handling and of best-effort
\* hydration.

FetchMessages == {Val("store error"), Val("An unexpected error occurred while fetching data.")}
SaveMessages == {Val("store error"), Val("An unexpected error occurred while saving data.")}

\* C15: the store answers a fetch without error with null exactly when the session
\* has no row in the collection. When the fetch returns to the step: after an
\* answer without error the hook's error is null (also when there is no row);
\* after a store error or an exception the hook's error is a message and nothing
\* is hydrated; and in every case the call has returned (the step is not loading).
C15_FetchNoRowVsFailure ==
    [][\A t \in Tabs :
         /\ \A i \in 1..Len(net[t]) :
               (/\ net[t][i].kind = "fetch" /\ net[t][i].stage = "sent"
                /\ Len(net'[t]) = Len(net[t]) /\ net'[t][i].stage = "ok")
               => (net'[t][i].data = Null
                   <=> \A j \in 1..Len(store[net[t][i].table]) :
                          store[net[t][i].table][j].row["session_id"] # Val(net[t][i].sid))
         /\ (Returned(t) /\ net[t][1].kind = "fetch")
            => /\ net'[t] = <<>> /\ ~isLoading'[t]
               /\ IF net[t][1].stage = "ok"
                  THEN error'[t] = Null
                  ELSE /\ error'[t] \in FetchMessages
                       /\ dpForm'[t] = dpForm[t] /\ pfForm'[t] = pfForm[t]
                       /\ formData'[t] = formData[t]]_vars

\* The fetch of a step threw: the step is ready and the hook holds the message of
\* the catch block.
C15_Witness ==
    \E t \in Tabs :
        /\ route[t] \in {"/requirements", "/finish"}
        /\ net[t] = <<>> /\ ~isLoading[t]
        /\ error[t] = Val("An unexpected error occurred while fetching data.")

\* C16: when a save returns to a step that stays mounted, the hook's error is null
\* after an answer without error and a message after a store error or an
\* exception; only an answer without error counts as success (step 2 advances,
\* step 3 reports completion); and in every case the caller's continuation runs.
C16_SaveNeverThrows ==
    [][\A t \in Tabs :
         (Returned(t) /\ net[t][1].kind = "save")
         => LET ok == net[t][1].stage = "ok"
            IN /\ ~isLoading'[t] \/ Len(net'[t]) = 1
               /\ route'[t] = route[t]
                  => /\ net'[t] = <<>> /\ ~isLoading'[t]
                     /\ error'[t] = Null <=> ok
                     /\ ~ok => error'[t] \in SaveMessages
               /\ net[t][1].origin = "submit"
                  => /\ (route'[t] # route[t] \/ "complete" \in toasts'[t]) <=> ok
                     /\ ~ok => toasts'[t] \in {{"saveFailed"}, {"finishFailed"}}]_vars

\* The save of a step-3 Submit threw: the step shows the failure notice and the
\* hook holds the message of the catch block.
C16_Witness ==
    \E t \in Tabs :
        /\ route[t] = "/finish"
        /\ net[t] = <<>> /\ ~isLoading[t]
        /\ toasts[t] = {"finishFailed"}
        /\ error[t] = Val("An unexpected error occurred while saving data.")

\* C17: when the hydration fetch of a step finds no row or fails, the form (with
\* the values pre-filled from the aggregator and the edits typed meanwhile) and
\* the aggregator stay as they are, and the step becomes ready.
C17_HydrationBestEffort ==
    [][\A t \in Tabs :
         (/\ Returned(t) /\ net[t][1].kind = "fetch"
          /\ (net[t][1].stage # "ok" \/ net[t][1].data = Null))
         => /\ dpForm'[t] = dpForm[t] /\ pfForm'[t] = pfForm[t]
            /\ formData'[t] = formData[t]
            /\ errors'[t] = errors[t] /\ isSubmitted'[t] = isSubmitted[t]
            /\ route'[t] = route[t]
            /\ net'[t] = <<>> /\ ~isLoading'[t]]_vars

\* Step 2 was entered with tools in the aggregator, the hydration fetch failed, and
\* the form still holds the pre-filled values.
C17_Witness ==
    \E t \in Tabs :
        /\ route[t] = "/requirements"
        /\ net[t] = <<>> /\ ~isLoading[t]
        /\ error[t] \in FetchMessages
        /\ IsVal(formData[t]["whatsapp"])
        /\ dpForm[t]["whatsapp"] = formData[t]["whatsapp"].v
        /\ dpForm[t] # [tool \in ToolSet |-> ToolDefault(tool)]

----------------------------------------------------------------------------
\* Properties of the aggregator and of the submission controls.

\* The keys a step hands to updateFormData in a step of the tab, from the form or
\* from the hydrated row: the keys of the step's fields that hold a value after it.
Touched(t) ==
    IF \E i \in SentNow(t) : net'[t][i].table = "requirements" THEN ToolSet
    ELSE IF \E i \in SentNow(t) : net'[t][i].table = "Finish" /\ net'[t][i].origin = "back"
         THEN PFFields
    ELSE IF \E i \in SentNow(t) : net'[t][i].table = "Finish"
         THEN BaseFields \cup {"paymentMethod"} \cup VariantFields(pfForm[t]["paymentMethod"].v)
    ELSE IF Hydrates(t) /\ net[t][1].table = "requirements" THEN ToolSet
    ELSE IF Hydrates(t)
         THEN {f \in PFFields : HydratedPF(net[t][1].data.v)[f] # Undef}
    ELSE {}

\* C18: in every step other than a page load (which creates a new, empty
\* aggregator) a key of the aggregator is never removed; a key the step does not
\* hand to updateFormData keeps its value; and a key it hands over holds the new
\* value as a whole (for a tool: the form's record, not a field-wise merge with the
\* old one).
C18_AggregatorMerge ==
    [][\A t \in Tabs :
         LET touched == Touched(t)
             sent == SentNow(t) # {}
         IN \/ touched = {} /\ formData'[t] = formData[t]
            \/ /\ touched # {}
               /\ \A k \in AggKeys : formData[t][k] # Absent => formData'[t][k] # Absent
               /\ \A k \in AggKeys \ touched : formData'[t][k] = formData[t][k]
               /\ \A k \in touched :
                     formData'[t][k] =
                        IF sent
                        THEN (IF k \in ToolSet THEN Val(dpForm[t][k]) ELSE pfForm[t][k])
                        ELSE (IF k \in ToolSet THEN Val(HydratedDP(net[t][1].data.v)[k])
                              ELSE HydratedPF(net[t][1].data.v)[k])
            \/ \E r \in Routes : PageLoad(t, r)]_vars

\* The aggregator of a tab holds the answers of step 2 and of step 3.
C18_Witness ==
    \E t \in Tabs :
        /\ formData[t]["whatsapp"] # Absent
        /\ formData[t]["paymentMethod"] # Absent

----------------------------------------------------------------------------
\* Properties of the completion forwarder.

\* A request whose payload is an INSERT event on table Finish (with its record).
FinishInsert(req) ==
    req.parses /\ req.type = "INSERT" /\ req.table = "Finish" /\ req.record # Undef

BodyKeys == {<<"session_id", "session_id">>, <<"payment_method", "Payment_method">>,
             <<"work_capacity", "Work_capacity">>}

\* C19: serving a request makes exactly one POST when the request is an INSERT
\* event on Finish, with event 'onboarding_completed' and the record's session_id,
\* Payment_method and Work_capacity, and no POST for any other request (another
\* type, another table, a body that is not JSON, a payload without record); and
\* when the external webhook answers, or cannot be reached, no further POST is
\* made, whatever the status.
C19_SinglePost ==
    [][/\ (ops' = ops + 1 /\ fwd' # fwd)
          => IF FinishInsert(fwd'.req)
             THEN /\ Len(fwd'.posts) = 1
                  /\ fwd'.total = fwd.total + 1
                  /\ fwd'.posts[1].event = Val("onboarding_completed")
                  /\ \A k \in BodyKeys :
                        fwd'.posts[1][k[1]] =
                           IF fwd'.req.record.v[k[2]] = Undef THEN Absent
                           ELSE fwd'.req.record.v[k[2]]
             ELSE /\ fwd'.posts = <<>>
                  /\ fwd'.total = fwd.total
                  /\ fwd'.stage = "done"
       /\ (ops' = ops /\ fwd' # fwd)
          => /\ fwd.stage = "posting" /\ fwd'.stage = "done"
             /\ fwd'.posts = fwd.posts
             /\ fwd'.total = fwd.total
             /\ fwd'.req = fwd.req]_vars

\* The forwarder served an INSERT on Finish, the external webhook answered with a
\* status that is not ok, and one POST was made for the request.
C19_Witness ==
    /\ fwd.stage = "done"
    /\ FinishInsert(fwd.req)
    /\ fwd.reply.message = "Webhook failed with status"
    /\ Len(fwd.posts) = 1
    /\ fwd.total = 2

----------------------------------------------------------------------------
\* Properties of the steps' pending state.

\* C21: a step is loading only while a store call of the tab has still to return;
\* when a fetch or a save returns to the step, with data, with a store error or by
\* exception, the step that stays mounted is not loading, nothing is pending and
\* its Submit and Back buttons are enabled again; a step that the return navigates
\* to starts with its own hydration fetch only.
C21_NeverStaysPending ==
    [][\A t \in Tabs :
         /\ isLoading'[t] => net'[t] # <<>>
         /\ Returned(t)
            => IF route'[t] = route[t]
               THEN /\ ~isLoading'[t] /\ net'[t] = <<>>
                    /\ sessionId'[t] # "" /\ route'[t] # "closed"
               ELSE /\ net[t][1].kind = "save"
                    /\ \A i \in 1..Len(net'[t]) :
                          net'[t][i].kind = "fetch" /\ net'[t][i].stage = "sent"]_vars

\* The store answered the save of a step-3 Submit with an error: the step is ready
\* again, with the store's message, and the Submit can be repeated.
C21_Witness ==
    \E t \in Tabs :
        /\ route[t] = "/finish" /\ sessionId[t] # ""
        /\ net[t] = <<>> /\ ~isLoading[t]
        /\ error[t] = Val("store error")
        /\ profileSchema(pfForm[t]) = {}

----------------------------------------------------------------------------
\* Properties of what the steps persist.

\* C22 as stated: a first Submit that passes validation, on any of the three
\* steps, sends a save keyed by the tab's session id; and a tab moves from a step
\* to the next one only when such a save has returned without error.
C22_EveryStepPersists ==
    [][\A t \in Tabs :
         /\ (~isSubmitted[t] /\ isSubmitted'[t] /\ errors'[t] = {})
            => \E i \in SentNow(t) :
                  /\ net'[t][i].origin = "submit"
                  /\ net'[t][i].sid = sessionId[t]
                  /\ net'[t][i].payload.v["session_id"] = Val(sessionId[t])
         /\ (ops' = ops /\ route[t] # "closed" /\ route'[t] # route[t])
            => /\ Returned(t) /\ net[t][1].kind = "save"
               /\ net[t][1].origin = "submit" => net[t][1].stage = "ok"]_vars

\* C23: a loaded page without a session id renders no step and has no store call;
\* every store call of a tab is made under the tab's session id, which is a token
\* (not empty), and the payload of a save carries it as session_id; every stored
\* row carries the session id of a browsing context; and a session_id key inside
\* the form data handed to saveEntry does not change the session_id of the payload.
C23_SessionTagged ==
    /\ \A t \in Tabs :
          /\ sessionId[t] = "" => net[t] = <<>> /\ ~isLoading[t]
          /\ \A i \in 1..Len(net[t]) :
                /\ net[t][i].sid = sessionId[t]
                /\ net[t][i].sid \in Tokens
                /\ net[t][i].kind = "save"
                   => net[t][i].payload.v["session_id"] = Val(sessionId[t])
          /\ Rendered(t)
             => \A other \in Tokens \cup {""} :
                   /\ savePayload([session_id |-> Val(other)] @@ dpPayload(dpForm[t]),
                                  sessionId[t])["session_id"] = Val(sessionId[t])
                   /\ savePayload([session_id |-> Val(other)] @@ pfPayload(pfForm[t]),
                                  sessionId[t])["session_id"] = Val(sessionId[t])
    /\ \A c \in Tables : \A i \in 1..Len(store[c]) :
          \E t \in Tabs :
              /\ storage[t] \in Tokens
              /\ store[c][i].row["session_id"] = Val(storage[t])

\* One tab could not read its session entry and shows no step; the other has
\* saved a row under its session id.
C23_Witness ==
    \E t, u \in Tabs :
        /\ route[u] # "closed" /\ sessionId[u] = ""
        /\ Len(net[t]) = 1 /\ net[t][1].kind = "save" /\ net[t][1].stage = "ok"
        /\ \E i \in 1..Len(store[net[t][1].table]) :
              store[net[t][1].table][i].row["session_id"] = Val(sessionId[t])

----------------------------------------------------------------------------
\* Properties of the completion event (store, database webhook and forwarder).

\* The delivered events for which the forwarder made a POST.
Posted == {i \in 1..Len(hook.log) : hook.log[i] # <<>>}

\* C24 as stated: the forwarder makes a POST only for an event that a validated
\* Submit of the final step caused; the row a Back click writes causes none.
C24_OnlyAfterCompletion ==
    \A i \in Posted : hook.events[i].origin = "submit"

----------------------------------------------------------------------------
\* Properties of hydration against the user's edits and of the round trips.

\* The form of the step differs from the values it was mounted with: the user
\* edited it while the hydration fetch was pending.
Edited(t) ==
    IF net[t][1].table = "requirements"
    THEN dpForm[t] # dpDefaultValues(formData[t])
    ELSE pfForm[t] # pfDefaultValues(formData[t])

\* C25: when the hydration fetch returns a row to a form the user edited while the
\* fetch was pending, the form becomes the store-to-form mapping of the row, with
\* none of the edits left, the aggregator's entries of the step become that
\* mapping, and the form counts as untouched (no errors, not submitted).
C25_LateHydrationOverwrites ==
    [][\A t \in Tabs :
         (Hydrates(t) /\ Edited(t))
         => LET row == net[t][1].data.v
            IN /\ net[t][1].table = "requirements"
                  => /\ dpForm'[t] = HydratedDP(row)
                     /\ \A tool \in ToolSet : formData'[t][tool] = Val(HydratedDP(row)[tool])
               /\ net[t][1].table = "Finish"
                  => /\ pfForm'[t] = HydratedPF(row)
                     /\ \A f \in PFFields :
                           HydratedPF(row)[f] # Undef => formData'[t][f] = HydratedPF(row)[f]
               /\ errors'[t] = {} /\ ~isSubmitted'[t]]_vars

\* The store has answered the hydration fetch of a step with the session's row
\* (which another tab of the session wrote meanwhile) while the form holds values
\* the user typed after the mount, different from the row's.
C25_Witness ==
    \E t \in Tabs :
        /\ Len(net[t]) = 1
        /\ net[t][1].kind = "fetch" /\ net[t][1].stage = "ok" /\ IsVal(net[t][1].data)
        /\ Edited(t)
        /\ net[t][1].table = "requirements"
        /\ dpForm[t]["whatsapp"].enabled
        /\ ~HydratedDP(net[t][1].data.v)["whatsapp"].enabled

\* C26: hydrating step 3 from a stored row leaves the tax declaration unticked in
\* the form and in the aggregator, whatever the form held when the row was
\* written; a Submit of a form whose declaration is not ticked reports the
\* declaration and sends nothing; and every save a Submit of step 3 sends comes
\* from a form with the declaration ticked.
C26_DeclarationNotRestored ==
    [][\A t \in Tabs :
         /\ (Hydrates(t) /\ net[t][1].table = "Finish")
            => /\ pfForm'[t]["taxDeclaration"] = Val(FALSE)
               /\ formData'[t]["taxDeclaration"] = Val(FALSE)
         /\ (/\ route[t] = "/finish" /\ ~isSubmitted[t] /\ isSubmitted'[t]
             /\ pfForm[t]["taxDeclaration"] # Val(TRUE))
            => /\ <<"taxDeclaration", "profile">> \in errors'[t]
               /\ net'[t] = net[t]
         /\ \A i \in SentNow(t) :
               (net'[t][i].table = "Finish" /\ net'[t][i].origin = "submit")
               => pfForm[t]["taxDeclaration"] = Val(TRUE)]_vars

\* Step 3 was hydrated from the row of a form that had the declaration ticked: the
\* other fields are restored, the declaration is unticked, also in the aggregator.
C26_Witness ==
    \E t \in Tabs :
        /\ route[t] = "/finish" /\ net[t] = <<>> /\ ~isLoading[t]
        /\ fetchLatest(store["Finish"], sessionId[t]) # Null
        /\ pfForm[t]["workCapacity"] = Val("part-time")
        /\ pfForm[t]["workCapacity"] = fetchLatest(store["Finish"], sessionId[t]).v["Work_capacity"]
        /\ pfForm[t]["taxDeclaration"] = Val(FALSE)
        /\ formData[t]["taxDeclaration"] = Val(FALSE)

\* The save a Submit of step 2 has sent from tab t.
SubmittedDP(t) ==
    /\ Len(net[t]) = 1
    /\ net[t][1].kind = "save" /\ net[t][1].table = "requirements"
    /\ net[t][1].origin = "submit"

\* C27: a form of step 2 that Submit has sent passed validation, and mapping the
\* row its payload is stored as back to the form shape gives, for every tool, the
\* form's enabled flag; for an enabled tool the form's value, or confirmed = true;
\* and for a disabled tool {enabled: false, value: ''} or {enabled: false,
\* confirmed: false}, whatever the form held for it.
C27_DigitalPresenceRoundTrip ==
    \A t \in Tabs :
        SubmittedDP(t)
        => LET form == dpForm[t]
               back == dpMappedData(StoredImage(net[t][1].payload.v))
           IN /\ checklistSchema(form) = {}
              /\ \A tool \in {"whatsapp", "discord", "github", "jira", "antigravity"} :
                    back[tool] = IF form[tool].enabled
                                 THEN [enabled |-> TRUE, value |-> form[tool].value]
                                 ELSE [enabled |-> FALSE, value |-> ""]
              /\ \A tool \in {"git", "node"} :
                    back[tool] = IF form[tool].enabled
                                 THEN [enabled |-> TRUE, confirmed |-> TRUE]
                                 ELSE [enabled |-> FALSE, confirmed |-> FALSE]

\* A valid form with an enabled whatsapp, a typed but disabled discord, an enabled
\* and ticked git and a ticked but disabled node was submitted.
C27_Witness ==
    \E t \in Tabs :
        /\ SubmittedDP(t)
        /\ dpForm[t]["whatsapp"].enabled
        /\ ~dpForm[t]["discord"].enabled /\ dpForm[t]["discord"].value # ""
        /\ dpForm[t]["git"].enabled /\ dpForm[t]["git"].confirmed
        /\ ~dpForm[t]["node"].enabled /\ dpForm[t]["node"].confirmed

\* The save a Submit of step 3 has sent from tab t.
SubmittedPF(t) ==
    /\ Len(net[t]) = 1
    /\ net[t][1].kind = "save" /\ net[t][1].table = "Finish"
    /\ net[t][1].origin = "submit"

\* C28: a form of step 3 that Submit has sent passed validation, and resetting a
\* form to the mapping of the row its payload is stored as restores the payment
\* method, the submitted value of every field of the selected variant (bank: bank
\* name, account number, branch code, account holder; wise: e-mail; crypto:
\* network, wallet address), no field of the other two variants, whatever the
\* form held for them, and the skills as the same list in the same order.
C28_PaymentRoundTrip ==
    \A t \in Tabs :
        SubmittedPF(t)
        => LET form == pfForm[t]
               back == resetValues(PFFields, pfMappedData(StoredImage(net[t][1].payload.v)))
               bank == {"bankName", "accountNumber", "branchCode", "accountHolderName"}
               wise == {"wiseEmail"}
               crypto == {"network", "walletAddress"}
               own == CASE form["paymentMethod"] = Val("bank") -> bank
                        [] form["paymentMethod"] = Val("wise") -> wise
                        [] form["paymentMethod"] = Val("crypto") -> crypto
           IN /\ profileSchema(form) = {}
              /\ back["paymentMethod"] = form["paymentMethod"]
              /\ \A f \in own : IsVal(form[f]) /\ back[f] = form[f]
              /\ \A f \in (bank \cup wise \cup crypto) \ own : back[f] = Undef
              /\ back["primarySkills"] = form["primarySkills"]

\* A valid crypto form with two skills, which also holds bank and wise values,
\* was submitted.
C28_Witness ==
    \E t \in Tabs :
        /\ SubmittedPF(t)
        /\ pfForm[t]["paymentMethod"] = Val("crypto")
        /\ Len(pfForm[t]["primarySkills"].v) = 2
        /\ IsVal(pfForm[t]["bankName"]) /\ IsVal(pfForm[t]["wiseEmail"])

\* A stored column is truthy: a non-empty string or true.
ColumnTruthy(tool, w) ==
    IF tool \in BoolTools THEN w = Val(TRUE) ELSE w \notin {Null, Val("")}

\* C29: when step 2 is hydrated from a row, a tool is enabled in the form, and in
\* the aggregator, exactly when its column of the row is truthy; so a tool whose
\* column is '' or false is disabled afterwards also when the aggregator of the
\* tab held it enabled and the form was mounted with it enabled.
C29_EnabledFromColumn ==
    [][\A t \in Tabs :
         (Hydrates(t) /\ net[t][1].table = "requirements")
         => \A tool \in ToolSet :
               LET col == net[t][1].data.v[ColOf(tool)]
               IN /\ dpForm'[t][tool].enabled <=> ColumnTruthy(tool, col)
                  /\ formData'[t][tool].v.enabled <=> ColumnTruthy(tool, col)
                  /\ (/\ IsVal(formData[t][tool]) /\ formData[t][tool].v.enabled
                      /\ dpForm[t][tool].enabled /\ ~ColumnTruthy(tool, col))
                     => ~dpForm'[t][tool].enabled /\ ~formData'[t][tool].v.enabled]_vars

\* A tab saved step 2 by Back with jira enabled without value and git enabled but
\* unticked, came back to the step with both still enabled in its aggregator and
\* in the form, and the store has answered the hydration fetch with the row, whose
\* columns for the two tools are '' and false.
C29_Witness ==
    \E t \in Tabs :
        /\ Len(net[t]) = 1
        /\ net[t][1].kind = "fetch" /\ net[t][1].table = "requirements"
        /\ net[t][1].stage = "ok" /\ IsVal(net[t][1].data)
        /\ IsVal(formData[t]["jira"]) /\ formData[t]["jira"].v.enabled
        /\ IsVal(formData[t]["git"]) /\ formData[t]["git"].v.enabled
        /\ dpForm[t]["jira"].enabled /\ dpForm[t]["git"].enabled
        /\ net[t][1].data.v["jira"] = Val("")
        /\ net[t][1].data.v["git"] = Val(FALSE)

====
